---------------------------- MODULE Spec2Model ----------------------------
(***************************************************************************)
(* Model of the screener core of crypto-screener-bybit: time helpers, the  *)
(* SQLite store (candles, tickers, filters, filter_triggers), the two      *)
(* filter evaluators, the per-symbol filter check with its fan-out, the    *)
(* candle builder and the minute scheduler with its queue processor.       *)
(*                                                                         *)
(* Optional values (Python None / a dict) are sequences of length 0 or 1.  *)
(* Prices and volumes are integers; a percentage comparison                *)
(* (end - start) / start * 100 >= p is written cross-multiplied, which is  *)
(* the same comparison for start > 0.                                      *)
(***************************************************************************)
EXTENDS Integers, Sequences, FiniteSets, TLC

VARIABLES
    now,                \* wall clock, whole seconds (time.time())
    candles,            \* table candles: set of rows
    candle_seq,         \* AUTOINCREMENT counter of table candles
    tickers,            \* table tickers: set of rows
    filters,            \* table filters: sequence of rows, in SELECT order
    filter_triggers,    \* table filter_triggers: sequence of rows, in insert order
    evalOut,            \* last direct call of an evaluator: <<>> or <<record>>
    cooldownOut,        \* last direct call of check_cooldown: <<>> or <<record>>
    current_candle,     \* CandleBuilder.current_candle: <<>> or <<dict>>
    current_minute_start, \* CandleBuilder.current_minute_start: <<>> or <<int>>
    tick_count,         \* CandleBuilder.tick_count
    previous_candle,    \* history: current_candle as it was before the last rollover
    finalizeOut,        \* last direct call of CandleBuilder.finalize
    running,            \* WebSocketManager.running
    filter_check_queue, \* WebSocketManager.filter_check_queue
    sched_minute_start, \* _filter_check_scheduler: local current_minute_start
    next_check_time,    \* _filter_check_scheduler: local next_check_time
    proc_pc,            \* _process_filter_checks: the await the task is to run next
    task,               \* _process_filter_checks: local task, <<>> or <<dict>>
    finalized,          \* _finalize_candle: local candle, <<>> or <<dict>>
    eval_filters,       \* check_all_filters_for_symbol: local filters
    filter_index,       \* check_all_filters_for_symbol: position of filter_obj
    triggers,           \* check_all_filters_for_symbol: local triggers
    returned,           \* value of the last finished check_all_filters_for_symbol
    trigger_marks,      \* cache: trigger marks added, in order
    broadcasts,         \* chart_manager: trigger_mark broadcasts attempted, in order
    alerts,             \* calls of _send_telegram_alert, in order
    last_update,        \* WebSocketManager.last_update[symbol]: <<>> or <<int>>
    consecutive_errors, \* _watch_symbol: local consecutive_errors
    watch_pc,           \* _watch_symbol: the await the task is to run next
    watch_wake,         \* _watch_symbol: end of the backoff sleep
    gap_request,        \* fetch_ohlcv call in flight: <<>> or <<request>>
    fill,               \* history: the last run of _ensure_data_continuity that fetched
    ticked,             \* history: minutes in which a frame reached the builder
    check,              \* history: the last task taken from the queue, <<>> or <<record>>
    match,              \* history: the last trigger match, <<>> or <<record>>
    evalPre,            \* history: the store as the running filter check found it
    last_write,         \* history: per candle key, the values of its last write
    start_pc,           \* ScreenerEngine.start: the step it is to run next
    candles_cache,      \* cache._candles_cache[(symbol, market)]
    error_limit_hit,    \* history: consecutive_errors has reached its maximum
    close_ticks,        \* history: the closed_minute of each close tick, in order
    db_closed,          \* Database.close() has run on the engine's connection
    closed_db_call,     \* history: a store call was made after Database.close()
    active_connections, \* chart_manager.active_connections, in insertion order
    accepted,           \* the number of WebSocket objects connect() has accepted
    chart_broadcast,    \* the frame of the broadcast_trigger_mark call in progress
    app_cooldown_minutes, \* config.settings.cooldown_minutes
    settings_changed_at,  \* history: when update_settings last set cooldown_minutes
    cooldown_used,      \* history: the cooldown_minutes of the last cooldown gate
    loop_pc             \* where each task gathered by start() stands, and start() itself

storeVars == <<candles, candle_seq, tickers, filters, filter_triggers, last_write>>
callVars == <<evalOut, cooldownOut>>
builderVars == <<current_candle, current_minute_start, tick_count, previous_candle,
                 finalizeOut>>
schedVars == <<filter_check_queue, sched_minute_start, next_check_time, close_ticks>>
procVars == <<proc_pc, task, finalized, eval_filters, filter_index, triggers, returned>>
fanoutVars == <<trigger_marks, broadcasts, alerts>>
watchVars == <<last_update, consecutive_errors, watch_pc, watch_wake, gap_request,
               fill, error_limit_hit>>
historyVars == <<ticked, check, match, evalPre>>
engineVars == <<start_pc, candles_cache>>
stopVars == <<db_closed, closed_db_call>>
chartVars == <<active_connections, accepted, chart_broadcast>>
settingsVars == <<app_cooldown_minutes, settings_changed_at, cooldown_used>>
shutdownVars == <<loop_pc>>
pipeVars == <<running, schedVars, procVars, fanoutVars, engineVars, stopVars,
             chartVars, settingsVars, shutdownVars, watchVars, historyVars>>
vars == <<now, storeVars, callVars, builderVars, pipeVars>>

-----------------------------------------------------------------------------
(* Bounds of the model *)

MaxCandles == 3         \* minutes of history a drawn store may hold
MaxInterval == 3        \* largest window (minutes) a drawn filter asks for
MaxCooldown == 2        \* largest cooldown_minutes handed to check_cooldown directly
MaxTriggerRows == 2     \* rows of filter_triggers a run may insert

(* Program constants *)

MINUTE == 60
COOLDOWN_MINUTES == 15

None == <<>>
Some(x) == <<x>>

SYMBOL == "SOL/USDT"
Markets == {"spot", "futures"}

Max(a, b) == IF a >= b THEN a ELSE b
Min(a, b) == IF a <= b THEN a ELSE b
Abs(a) == IF a >= 0 THEN a ELSE -a

-----------------------------------------------------------------------------
(* time_utils.py *)

round_to_minute(timestamp) == (timestamp \div MINUTE) * MINUTE

get_current_minute_timestamp(clock) == round_to_minute(clock)

get_timestamp_n_minutes_ago(clock, minutes) ==
    get_current_minute_timestamp(clock) - (minutes * MINUTE)

-----------------------------------------------------------------------------
(* database.py: reads.  `fails` is the outcome of the aiosqlite call: on an  *)
(* exception each read logs and returns its fallback value.                  *)

RECURSIVE OrderByTimestamp(_)
OrderByTimestamp(rows) ==
    IF rows = {} THEN <<>>
    ELSE LET first == CHOOSE r \in rows : \A q \in rows : r.timestamp <= q.timestamp
         IN  <<first>> \o OrderByTimestamp(rows \ {first})

get_candles(table, clock, symbol, market, minutes, fails) ==
    IF fails THEN <<>>
    ELSE LET cutoff_time == get_timestamp_n_minutes_ago(clock, minutes)
         IN  OrderByTimestamp({r \in table : /\ r.symbol = symbol
                                             /\ r.market = market
                                             /\ r.timestamp >= cutoff_time})

get_ticker(table, symbol, market, fails) ==
    IF fails THEN None
    ELSE LET rows == {r \in table : r.symbol = symbol /\ r.market = market}
         IN  IF rows = {} THEN None
             ELSE LET row == CHOOSE r \in rows : TRUE
                  IN  Some([symbol |-> symbol, market |-> market,
                            volume_24h |-> row.volume_24h,
                            last_price |-> row.last_price])

check_cooldown(table, clock, filter_id, symbol, market, cooldown_minutes, fails) ==
    IF fails THEN FALSE
    ELSE LET cutoff_time == get_timestamp_n_minutes_ago(clock, cooldown_minutes)
             count == Cardinality({i \in 1..Len(table) :
                                     /\ table[i].filter_id = filter_id
                                     /\ table[i].symbol = symbol
                                     /\ table[i].market = market
                                     /\ table[i].triggered_at > cutoff_time})
         IN  count = 0

(* database.py: writes *)

TriggerRow(id, filter_id, filter_name, symbol, market, triggered_at, data) ==
    [id |-> id, filter_id |-> filter_id, filter_name |-> filter_name,
     symbol |-> symbol, market |-> market, triggered_at |-> triggered_at,
     data |-> data, notified |-> 1]

\* save_trigger: the table after the call and the id it returns (0 when the
\* insert or the commit raised: the exception is logged and rolled back).
save_trigger(table, clock, filter_id, filter_name, symbol, market, data, fails) ==
    IF fails THEN [table |-> table, trigger_id |-> 0]
    ELSE [table |-> Append(table, TriggerRow(Len(table) + 1, filter_id, filter_name,
                                             symbol, market, clock, data)),
          trigger_id |-> Len(table) + 1]

-----------------------------------------------------------------------------
(* filters.py: the evaluators *)

\* ticker.get('quote_volume', 0): the dict get_ticker builds has the keys
\* symbol, market, volume_24h, last_price, updated_at and no quote_volume.
TickerQuoteVolume(ticker) ==
    IF "quote_volume" \in DOMAIN ticker THEN ticker.quote_volume ELSE 0

RECURSIVE SumVolume(_)
SumVolume(cs) ==
    IF cs = <<>> THEN 0 ELSE cs[1].volume + SumVolume(Tail(cs))

\* change_pct >= p, change_pct <= -p, abs(change_pct) >= p for price_start > 0
ChangeAtLeast(price_start, price_end, p) ==
    (price_end - price_start) * 100 >= p * price_start
ChangeAtMost(price_start, price_end, p) ==
    (price_end - price_start) * 100 <= p * price_start
AbsChangeAtLeast(price_start, price_end, p) ==
    Abs(price_end - price_start) * 100 >= p * price_start

DirectionTriggered(direction, price_start, price_end, min_change) ==
    \/ direction = "up" /\ ChangeAtLeast(price_start, price_end, min_change)
    \/ direction = "down" /\ ChangeAtMost(price_start, price_end, -min_change)
    \/ direction = "any" /\ AbsChangeAtLeast(price_start, price_end, min_change)

InsufficientCandlesOffByOne(cs, minutes) == Len(cs) < minutes - 1

\* The window test of both evaluators: len(candles) < minutes -> return None
InsufficientCandles(cs, minutes) == Len(cs) < minutes

\* check_price_change_filter with the two store reads it makes already done:
\* cs = db.get_candles(...), ticker = db.get_ticker(...) (read only when
\* min_volume_24h > 0).  The name `ticker` is bound only inside
\* `if min_volume_24h > 0`; the return statement reads it in every case, so
\* with min_volume_24h <= 0 it raises UnboundLocalError, which the function's
\* own except clause turns into None.
PriceChangeResult(cs, ticker, config) ==
    IF InsufficientCandles(cs, config.interval_minutes) THEN None
    ELSE IF cs = <<>> THEN None      \* candles[0]: IndexError, caught
    ELSE LET price_start == cs[1].open
             price_end   == cs[Len(cs)].close
         IN  IF price_start <= 0 THEN None
             ELSE IF ~DirectionTriggered(config.direction, price_start, price_end,
                                         config.min_price_change_percent)
             THEN None
             ELSE IF config.min_volume_24h > 0
             THEN IF ticker # None /\ TickerQuoteVolume(ticker[1]) < config.min_volume_24h
                  THEN None
                  ELSE Some([price_from |-> price_start,
                             price_to   |-> price_end,
                             volume_24h |-> IF ticker # None
                                            THEN TickerQuoteVolume(ticker[1]) ELSE 0])
             ELSE None

check_price_change_filter(ctable, ttable, clock, symbol, market, config, fails) ==
    PriceChangeResult(
        get_candles(ctable, clock, symbol, market, config.interval_minutes, fails),
        get_ticker(ttable, symbol, market, fails),
        config)

\* Python slices candles[-n:] and candles[:-n] for n >= 1
LastN(cs, n) == SubSeq(cs, Max(1, Len(cs) - n + 1), Len(cs))
AllButLastN(cs, n) == SubSeq(cs, 1, Max(0, Len(cs) - n))

\* check_volume_spike_filter.  config.keys tells which names the stored JSON
\* uses: the evaluator reads long_period_minutes and spike_multiplier and a
\* missing key raises KeyError, which the except clause turns into None.
VolumeSpikeResult(cs, config) ==
    IF config.keys # "long_period_minutes" THEN None
    ELSE IF InsufficientCandles(cs, config.long_period_minutes) THEN None
    ELSE LET current_candles    == LastN(cs, config.short_period_minutes)
             historical_candles == AllButLastN(cs, config.short_period_minutes)
             current_volume     == SumVolume(current_candles)
             historical_volume  == SumVolume(historical_candles)
         IN  IF Len(historical_candles) < 1 THEN None
             \* avg_volume = historical_volume / len(historical) <= 0
             ELSE IF historical_volume <= 0 THEN None
             \* spike_ratio = current_volume / avg_volume < spike_multiplier
             ELSE IF current_volume * Len(historical_candles)
                        < config.spike_multiplier * historical_volume
             THEN None
             ELSE IF /\ config.min_price_change_percent > 0
                     /\ current_candles[1].open > 0
                     /\ ~AbsChangeAtLeast(current_candles[1].open,
                                          current_candles[Len(current_candles)].close,
                                          config.min_price_change_percent)
             THEN None
             ELSE Some([current_volume |-> current_volume,
                        historical_volume |-> historical_volume,
                        historical_count |-> Len(historical_candles),
                        period |-> config.short_period_minutes])

check_volume_spike_filter(ctable, clock, symbol, market, config, fails) ==
    VolumeSpikeResult(
        get_candles(ctable, clock, symbol, market,
                    IF config.keys = "long_period_minutes"
                    THEN config.long_period_minutes ELSE 0, fails),
        config)

-----------------------------------------------------------------------------
(* websocket_manager.py: CandleBuilder.  A builder is the record of its      *)
(* three fields.                                                             *)

MaxTicks == 2           \* ticks counted in one candle

Builder(candle, minute_start, ticks) ==
    [current_candle |-> candle, current_minute_start |-> minute_start,
     tick_count |-> ticks]

NewBuilder == Builder(None, None, 0)

\* CandleBuilder.update: a tick of another minute than current_minute_start
\* replaces the candle being built; then the tick is folded in.
update(b, timestamp, price, volume_24h) ==
    LET rolled == b.current_minute_start # Some(timestamp)
        started == IF rolled
                   THEN Builder(Some([symbol |-> SYMBOL, market |-> "spot",
                                      timestamp |-> timestamp,
                                      open |-> price, high |-> price, low |-> price,
                                      close |-> price, volume |-> 0, tick_count |-> 0]),
                                Some(timestamp), 0)
                   ELSE b
    IN  IF started.current_candle = None THEN started
        ELSE LET c == started.current_candle[1]
                 n == started.tick_count + 1
             IN  Builder(Some([c EXCEPT !.high = Max(c.high, price),
                                        !.low = Min(c.low, price),
                                        !.close = price,
                                        !.tick_count = n]),
                         started.current_minute_start, n)

\* CandleBuilder.finalize: a copy of the candle being built when it is the
\* candle of `timestamp`, else None.
finalize(b, timestamp) ==
    IF b.current_candle = None THEN None
    ELSE IF b.current_candle[1].timestamp # timestamp THEN None
    ELSE b.current_candle

\* a finalize that hands the candle over and starts afresh
finalize_self_taken(b, timestamp) ==
    IF finalize(b, timestamp) = None THEN b ELSE NewBuilder

\* the builder after finalize(timestamp): the method reads current_candle,
\* copies it and assigns no attribute of self
finalize_self(b, timestamp) == b

TheBuilder == Builder(current_candle, current_minute_start, tick_count)

InitBuilder ==
    /\ current_candle = None
    /\ current_minute_start = None
    /\ tick_count = 0
    /\ previous_candle = None
    /\ finalizeOut = None

Prices == {100, 200}

\* the coroutines start() gathers, and start() itself
LoopTasks == {"watcher", "scheduler", "processor", "cleanup", "gap_checker", "start"}

\* before start() is called
NotStarted == [t \in LoopTasks |-> "none"]

\* start() waits in asyncio.gather; each task has found running true and
\* waits in its first await
Gathered ==
    [watcher |-> "watch_ticker", scheduler |-> "sleep", processor |-> "get",
     cleanup |-> "sleep", gap_checker |-> "sleep", start |-> "gather"]

\* WebSocketManager.__init__ and the tasks start() has not created yet
InitStopped ==
    /\ running = FALSE
    /\ filter_check_queue = <<>>
    /\ close_ticks = <<>>
    /\ sched_minute_start = 0
    /\ next_check_time = 0
    /\ proc_pc = "stopped"
    /\ task = None
    /\ finalized = None
    /\ eval_filters = <<>>
    /\ filter_index = 0
    /\ triggers = <<>>
    /\ returned = None
    /\ trigger_marks = <<>>
    /\ broadcasts = <<>>
    /\ alerts = <<>>
    /\ last_update = None
    /\ consecutive_errors = 0
    /\ watch_pc = "stopped"
    /\ watch_wake = 0
    /\ gap_request = None
    /\ fill = None
    /\ error_limit_hit = FALSE
    /\ start_pc = "stopped"
    /\ candles_cache = <<>>
    /\ db_closed = FALSE
    /\ closed_db_call = FALSE
    /\ active_connections = <<>>
    /\ accepted = 0
    /\ chart_broadcast = None
    /\ app_cooldown_minutes = COOLDOWN_MINUTES
    /\ settings_changed_at = None
    /\ loop_pc = NotStarted
    /\ cooldown_used = None
    /\ ticked = {}
    /\ check = None
    /\ match = None
    /\ evalPre = None

-----------------------------------------------------------------------------
(* Inputs the specifications draw from *)

\* Candle rows a drawn store may hold in one minute: flat, rising, falling,
\* and a row with a zero open and no volume (bad exchange data).
CandleShapes ==
    { [open |-> 100, high |-> 100, low |-> 100, close |-> 100, volume |-> 1],
      [open |-> 100, high |-> 200, low |-> 100, close |-> 200, volume |-> 4],
      [open |-> 200, high |-> 200, low |-> 100, close |-> 100, volume |-> 1],
      [open |-> 0,   high |-> 100, low |-> 0,   close |-> 100, volume |-> 0] }

NoCandle == [open |-> -1, high |-> -1, low |-> -1, close |-> -1, volume |-> -1]

CandleRow(id, symbol, market, timestamp, c) ==
    [id |-> id, symbol |-> symbol, market |-> market, timestamp |-> timestamp,
     open |-> c.open, high |-> c.high, low |-> c.low, close |-> c.close,
     volume |-> c.volume]

\* A store holding, for each of the MaxCandles minutes before `minute`, the
\* row history[i] (i minutes back) or nothing.
DrawnCandles(history, minute) ==
    { CandleRow(i, SYMBOL, "spot", minute - i * MINUTE, history[i]) :
        i \in {j \in 1..MaxCandles : history[j] # NoCandle} }

Histories == [1..MaxCandles -> CandleShapes \cup {NoCandle}]

\* The writes of the candles table as a map: UNIQUE(symbol, market, timestamp)
\* is the key, the values are the columns save_candle binds
CandleKey(symbol, market, timestamp) == <<symbol, market, timestamp>>

CandleValues(c) ==
    [open |-> c.open, high |-> c.high, low |-> c.low, close |-> c.close,
     volume |-> c.volume]

Written(table) ==
    { [key |-> CandleKey(r.symbol, r.market, r.timestamp),
       values |-> CandleValues(r)] : r \in table }

Put(writes, symbol, market, timestamp, c) ==
    { e \in writes : e.key # CandleKey(symbol, market, timestamp) }
        \cup { [key |-> CandleKey(symbol, market, timestamp),
                values |-> CandleValues(c)] }

TickerRow(volume_24h) ==
    [symbol |-> SYMBOL, market |-> "spot", volume_24h |-> volume_24h,
     last_price |-> 100]

DrawnTickers == { {}, {TickerRow(20)} }

PriceChangeConfigs ==
    [market : {"spot"}, interval_minutes : 1..MaxInterval,
     min_price_change_percent : {0, 50, 100}, direction : {"up", "down", "any"},
     min_volume_period : {0, 3}, min_volume_24h : {0, 10}]

VolumeSpikeConfigs ==
    [market : {"spot"}, keys : {"long_period_minutes", "base_period_minutes"},
     short_period_minutes : 1..2, long_period_minutes : 2..MaxInterval,
     spike_multiplier : {1, 4}, min_price_change_percent : {0, 50},
     price_direction : {"up", "down", "all"}]

FilterRow(id, type, config) ==
    [id |-> id, name |-> "f", type |-> type, enabled |-> TRUE, config |-> config]

DrawnFilters ==
    { FilterRow(1, "price_change", c) : c \in PriceChangeConfigs }
    \cup { FilterRow(1, "volume_spike", c) : c \in VolumeSpikeConfigs }

-----------------------------------------------------------------------------
(* SpecEval: the two evaluators applied to drawn stores and configs *)

EvalNow == 10 * MINUTE + 10

InitEval ==
    /\ now = EvalNow
    /\ \E history \in Histories :
           candles = DrawnCandles(history, get_current_minute_timestamp(EvalNow))
    /\ last_write = Written(candles)
    /\ candle_seq = MaxCandles + 1
    /\ tickers \in DrawnTickers
    /\ \E f \in DrawnFilters : filters = <<f>>
    /\ filter_triggers = <<>>
    /\ evalOut = None
    /\ cooldownOut = None
    /\ InitBuilder
    /\ InitStopped

EvalPriceChange(fails) ==
    /\ evalOut = None
    /\ filters[1].type = "price_change"
    /\ LET config == filters[1].config
           cs == get_candles(candles, now, SYMBOL, config.market,
                             config.interval_minutes, fails)
       IN  evalOut' = Some([type |-> "price_change", window |-> cs,
                            required |-> config.interval_minutes,
                            result |-> check_price_change_filter(
                                candles, tickers, now, SYMBOL, config.market,
                                config, fails)])
    /\ UNCHANGED <<pipeVars, now, storeVars, cooldownOut, builderVars>>

EvalVolumeSpike(fails) ==
    /\ evalOut = None
    /\ filters[1].type = "volume_spike"
    /\ LET config == filters[1].config
           cs == get_candles(candles, now, SYMBOL, config.market,
                             config.long_period_minutes, fails)
       IN  evalOut' = Some([type |-> "volume_spike", window |-> cs,
                            required |-> config.long_period_minutes,
                            result |-> check_volume_spike_filter(
                                candles, now, SYMBOL, config.market,
                                config, fails)])
    /\ UNCHANGED <<pipeVars, now, storeVars, cooldownOut, builderVars>>

NextEval ==
    \/ \E fails \in BOOLEAN : EvalPriceChange(fails)
    \/ \E fails \in BOOLEAN : EvalVolumeSpike(fails)

SpecEval == InitEval /\ [][NextEval]_vars

-----------------------------------------------------------------------------
(* Claims about the evaluators, checked under SpecEval *)

EvalConfig == filters[1].config

\* C8: an evaluator returns a trigger only when get_candles returned at least
\* the window it asked for (interval_minutes for price_change, the long period
\* for volume_spike); with fewer candles the result is None.
C8_NoTriggerBelowWindow ==
    evalOut # None =>
        (Len(evalOut[1].window) < evalOut[1].required => evalOut[1].result = None)

\* A price_change call that is one candle short of its window and returned
\* None although direction, threshold and the 24h gate would all have let the
\* returned candles through.
C8_Witness ==
    /\ evalOut # None
    /\ evalOut[1].type = "price_change"
    /\ Len(evalOut[1].window) >= 1
    /\ Len(evalOut[1].window) = evalOut[1].required - 1
    /\ evalOut[1].window[1].open > 0
    /\ DirectionTriggered(EvalConfig.direction, evalOut[1].window[1].open,
                          evalOut[1].window[Len(evalOut[1].window)].close,
                          EvalConfig.min_price_change_percent)
    /\ EvalConfig.min_volume_24h > 0
    /\ tickers = {}
    /\ evalOut[1].result = None

\* C10: on a full window with a positive first open and both volume gates
\* disabled, check_price_change_filter returns a trigger exactly when the
\* direction/threshold predicate holds for
\* change = (last.close - first.open) / first.open * 100.
C10_TriggerIffPredicate ==
    ( /\ evalOut # None
      /\ evalOut[1].type = "price_change"
      /\ Len(evalOut[1].window) >= evalOut[1].required
      /\ evalOut[1].window # <<>>
      /\ evalOut[1].window[1].open > 0
      /\ EvalConfig.min_volume_24h = 0
      /\ EvalConfig.min_volume_period = 0 )
    => LET first_open == evalOut[1].window[1].open
           last_close == evalOut[1].window[Len(evalOut[1].window)].close
           m == EvalConfig.min_price_change_percent
           d == EvalConfig.direction
       IN  (evalOut[1].result # None)
           <=> ( \/ d = "up" /\ (last_close - first_open) * 100 >= m * first_open
                 \/ d = "down" /\ (last_close - first_open) * 100 <= (-m) * first_open
                 \/ d = "any" /\ Abs(last_close - first_open) * 100 >= m * first_open )

-----------------------------------------------------------------------------
(* SpecCooldown: check_cooldown called directly while the clock runs and     *)
(* trigger rows are inserted.  The clock is observed at seconds 0, 29, 30    *)
(* and 59 of each minute.                                                    *)

CooldownStart == 10 * MINUTE
CooldownEnd == CooldownStart + (MaxCooldown + 2) * MINUTE

InitCooldown ==
    /\ now = CooldownStart
    /\ candles = {}
    /\ last_write = {}
    /\ candle_seq = 1
    /\ tickers = {}
    /\ filters = <<FilterRow(1, "price_change",
                             [market |-> "spot", interval_minutes |-> 1,
                              min_price_change_percent |-> 0, direction |-> "any",
                              min_volume_period |-> 0, min_volume_24h |-> 0])>>
    /\ filter_triggers = <<>>
    /\ evalOut = None
    /\ cooldownOut = None
    /\ InitBuilder
    /\ InitStopped

CooldownTick ==
    /\ now < CooldownEnd
    /\ now' = now + (IF now % MINUTE \in {29, 59} THEN 1 ELSE 29)
    /\ cooldownOut' = None
    /\ UNCHANGED <<pipeVars, storeVars, evalOut, builderVars>>

CooldownSaveTrigger(fails) ==
    /\ Len(filter_triggers) < MaxTriggerRows
    /\ filter_triggers' = save_trigger(filter_triggers, now, 1, "f", SYMBOL, "spot",
                                       None, fails).table
    /\ cooldownOut' = None
    /\ UNCHANGED <<pipeVars, now, candles, candle_seq, last_write, tickers, filters, evalOut,
                 builderVars>>

CooldownCheck(cooldown_minutes, fails) ==
    /\ cooldownOut' = Some([at |-> now, cooldown_minutes |-> cooldown_minutes,
                            fails |-> fails,
                            can_trigger |-> check_cooldown(filter_triggers, now, 1,
                                                SYMBOL, "spot", cooldown_minutes, fails)])
    /\ UNCHANGED <<pipeVars, now, storeVars, evalOut, builderVars>>

NextCooldown ==
    \/ CooldownTick
    \/ \E fails \in BOOLEAN : CooldownSaveTrigger(fails)
    \/ \E c \in 1..MaxCooldown, fails \in BOOLEAN : CooldownCheck(c, fails)

SpecCooldown == InitCooldown /\ [][NextCooldown]_vars

\* C9: a check_cooldown call whose read succeeded returns TRUE exactly when no
\* row of the key has triggered_at > now - cooldown_minutes * 60, at every
\* second: a trigger at t is still suppressed at t + c*60 - 1 and allowed
\* again at t + c*60.
C9_CooldownExactToTheSecond ==
    (cooldownOut # None /\ ~cooldownOut[1].fails) =>
        ( cooldownOut[1].can_trigger
          <=> ~\E i \in 1..Len(filter_triggers) :
                 /\ filter_triggers[i].filter_id = 1
                 /\ filter_triggers[i].symbol = SYMBOL
                 /\ filter_triggers[i].market = "spot"
                 /\ filter_triggers[i].triggered_at
                        > cooldownOut[1].at - cooldownOut[1].cooldown_minutes * MINUTE )

-----------------------------------------------------------------------------
(* SpecBuilder: one CandleBuilder fed ticks and asked to finalize while the  *)
(* clock runs.  The clock is observed at seconds 0, 10 and 30 of a minute.   *)

MaxMinutes == 3         \* minutes a run of the stream lasts

StreamStart == 10 * MINUTE
StreamEnd == StreamStart + MaxMinutes * MINUTE

ClockStep(clock) ==
    IF clock % MINUTE = 0 THEN 10 ELSE IF clock % MINUTE = 10 THEN 20 ELSE 30

InitBuilderSpec ==
    /\ now = StreamStart
    /\ candles = {}
    /\ last_write = {}
    /\ candle_seq = 1
    /\ tickers = {}
    /\ filters = <<>>
    /\ filter_triggers = <<>>
    /\ evalOut = None
    /\ cooldownOut = None
    /\ InitBuilder
    /\ InitStopped

BuilderClock ==
    /\ now < StreamEnd
    /\ now' = now + ClockStep(now)
    /\ finalizeOut' = None
    /\ UNCHANGED <<pipeVars, storeVars, callVars, current_candle, current_minute_start,
                   tick_count, previous_candle>>

\* builder.update(minute_start, price, volume_24h) as _process_ticker_update
\* calls it for a frame stamped `timestamp`
BuilderUpdate(timestamp, price) ==
    /\ tick_count < MaxTicks \/ current_minute_start # Some(round_to_minute(timestamp))
    /\ LET b == update(TheBuilder, round_to_minute(timestamp), price, 0)
       IN  /\ current_candle' = b.current_candle
           /\ current_minute_start' = b.current_minute_start
           /\ tick_count' = b.tick_count
           /\ previous_candle' =
                 IF current_minute_start # Some(round_to_minute(timestamp))
                 THEN current_candle ELSE previous_candle
    /\ finalizeOut' = None
    /\ UNCHANGED <<pipeVars, now, storeVars, callVars>>

\* builder.finalize(minute); the record kept of the call holds the builder
\* as the call found it and, when the call before it (no update since) was
\* for the same minute, what that call returned
BuilderFinalize(minute) ==
    /\ finalizeOut' = Some([minute |-> minute,
                            result |-> finalize(TheBuilder, minute),
                            before |-> TheBuilder,
                            again |-> IF finalizeOut # None
                                         /\ finalizeOut[1].minute = minute
                                      THEN Some(finalizeOut[1].result) ELSE None])
    /\ LET b == finalize_self(TheBuilder, minute)
       IN  /\ current_candle' = b.current_candle
           /\ current_minute_start' = b.current_minute_start
           /\ tick_count' = b.tick_count
    /\ UNCHANGED <<pipeVars, now, storeVars, callVars, previous_candle>>

StreamMinutes == {StreamStart + k * MINUTE : k \in 0..MaxMinutes}

NextBuilder ==
    \/ BuilderClock
    \/ \E price \in Prices : BuilderUpdate(now, price)
    \/ \E minute \in StreamMinutes : BuilderFinalize(minute)

SpecBuilder == InitBuilderSpec /\ [][NextBuilder]_vars

\* C3: once the builder has rolled over from minute m to a later minute,
\* finalize(m) still returns the candle that was built for m (the one held
\* before the rollover).
C3_FinalizeReturnsRolledOverCandle ==
    ( /\ finalizeOut # None
      /\ previous_candle # None
      /\ previous_candle[1].timestamp = finalizeOut[1].minute )
    => finalizeOut[1].result = previous_candle

\* C17: finalize(minute) leaves the builder as it found it, and a second call
\* for the same minute with no update in between returns what the first did.
C17_FinalizeIsPureAndRepeatable ==
    finalizeOut # None =>
        /\ TheBuilder = finalizeOut[1].before
        /\ finalizeOut[1].again # None
               => finalizeOut[1].again[1] = finalizeOut[1].result

\* finalize was called twice in a row for the minute of the candle being
\* built, which has ticks of two prices
C17_Witness ==
    /\ finalizeOut # None
    /\ finalizeOut[1].again # None
    /\ finalizeOut[1].result # None
    /\ finalizeOut[1].result[1].high > finalizeOut[1].result[1].low

-----------------------------------------------------------------------------
(* database.py: save_candle, and the rows of a store the pipeline runs on   *)

\* a plain INSERT into a table without UNIQUE(symbol, market, timestamp)
insert_candle(table, seq, symbol, market, timestamp, c, fails) ==
    IF fails THEN [table |-> table, seq |-> seq, ok |-> FALSE]
    ELSE [table |-> table \cup {CandleRow(seq, symbol, market, timestamp, c)},
          seq |-> seq + 1,
          ok |-> TRUE]

\* save_candle: INSERT OR REPLACE on UNIQUE(symbol, market, timestamp) under a
\* fresh AUTOINCREMENT id; on an exception nothing is written and the call
\* returns False.
save_candle(table, seq, symbol, market, timestamp, c, fails) ==
    IF fails THEN [table |-> table, seq |-> seq, ok |-> FALSE]
    ELSE [table |-> {r \in table : ~(/\ r.symbol = symbol
                                      /\ r.market = market
                                      /\ r.timestamp = timestamp)}
                    \cup {CandleRow(seq, symbol, market, timestamp, c)},
          seq |-> seq + 1,
          ok |-> TRUE]

\* save_candles: executemany of the same INSERT OR REPLACE, one commit; an
\* exception rolls the whole batch back and 0 is returned
RECURSIVE InsertOrReplaceAll(_, _, _, _, _)
InsertOrReplaceAll(table, seq, symbol, market, rows) ==
    IF rows = <<>> THEN [table |-> table, seq |-> seq]
    ELSE LET saved == save_candle(table, seq, symbol, market, Head(rows).timestamp,
                                  Head(rows), FALSE)
         IN  InsertOrReplaceAll(saved.table, saved.seq, symbol, market, Tail(rows))

save_candles(table, seq, symbol, market, rows, fails) ==
    IF fails THEN [table |-> table, seq |-> seq, count |-> 0]
    ELSE LET saved == InsertOrReplaceAll(table, seq, symbol, market, rows)
         IN  [table |-> saved.table, seq |-> saved.seq, count |-> Len(rows)]

\* _get_active_filters_for_symbol: enabled rows whose config does not list
\* the symbol under the key excluded_symbols
excluded_symbols(config) ==
    IF "excluded_symbols" \in DOMAIN config THEN config.excluded_symbols ELSE {}

get_active_filters_for_symbol(table, symbol) ==
    SelectSeq(table, LAMBDA f : f.enabled /\ symbol \notin excluded_symbols(f.config))

-----------------------------------------------------------------------------
(* The exchange: fetch_ohlcv answers with one CCXT row                      *)
(* <<timestamp_ms, open, high, low, close, base volume>> per minute.  The   *)
(* newest row is that of the minute still open when the exchange lists it   *)
(* already (open_listed), else that of the last closed minute.              *)

HistoryLimit == MaxCandles + 1  \* rows asked for when a history is loaded

fetch_ohlcv(clock, since_ms, limit, open_listed) ==
    LET current == IF open_listed THEN get_current_minute_timestamp(clock)
                   ELSE get_current_minute_timestamp(clock) - MINUTE
        first == IF since_ms = None THEN current - (limit - 1) * MINUTE
                 ELSE round_to_minute(since_ms[1] \div 1000)
        count == IF first > current THEN 0
                 ELSE Min(limit, (current - first) \div MINUTE + 1)
    IN  [i \in 1..count |-> <<(first + (i - 1) * MINUTE) * 1000, 100, 100, 100, 100, 1>>]

\* _save_ohlcv_candle
save_ohlcv_candle(table, seq, symbol, market, candle_data) ==
    LET timestamp == candle_data[1] \div 1000
        volume_base == candle_data[6]
        avg_price == (candle_data[3] + candle_data[4]) \div 2
        volume_quote == volume_base * avg_price
    IN  save_candle(table, seq, symbol, market, timestamp,
                    [open |-> candle_data[2], high |-> candle_data[3],
                     low |-> candle_data[4], close |-> candle_data[5],
                     volume |-> volume_quote], FALSE)

\* the save_candle call _save_ohlcv_candle makes for a row of fetch_ohlcv
OhlcvCandle(candle_data) ==
    [timestamp |-> candle_data[1] \div 1000,
     open |-> candle_data[2], high |-> candle_data[3], low |-> candle_data[4],
     close |-> candle_data[5],
     volume |-> candle_data[6] * ((candle_data[3] + candle_data[4]) \div 2)]

\* history: the writes of the rows a backfill saves, in order
RECURSIVE PutRows(_, _, _, _)
PutRows(writes, symbol, market, rows) ==
    IF rows = <<>> THEN writes
    ELSE PutRows(Put(writes, symbol, market, OhlcvCandle(Head(rows)).timestamp,
                     OhlcvCandle(Head(rows))),
                 symbol, market, Tail(rows))

\* for candle_data in candles: every row is saved, the newest included
RECURSIVE SaveEveryRow(_, _, _, _, _)
SaveEveryRow(table, seq, symbol, market, rows) ==
    IF rows = <<>> THEN [table |-> table, seq |-> seq]
    ELSE LET saved == save_ohlcv_candle(table, seq, symbol, market, Head(rows))
         IN  SaveEveryRow(saved.table, saved.seq, symbol, market, Tail(rows))

\* for candle_data in candles[:-1]: await self._save_ohlcv_candle(...)
RECURSIVE SaveAllButLast(_, _, _, _, _)
SaveAllButLast(table, seq, symbol, market, rows) ==
    IF Len(rows) <= 1 THEN [table |-> table, seq |-> seq]
    ELSE LET saved == save_ohlcv_candle(table, seq, symbol, market, Head(rows))
         IN  SaveAllButLast(saved.table, saved.seq, symbol, market, Tail(rows))

\* The minutes a fetch_ohlcv call in flight will answer for
RequestedMinutes(request, clock) ==
    LET rows == fetch_ohlcv(clock, request.since_ms, request.limit, TRUE)
    IN  {rows[i][1] \div 1000 : i \in 1..Len(rows)}

-----------------------------------------------------------------------------
(* Spec: the running pipeline.  One symbol is watched; the scheduler, the   *)
(* queue processor and the watcher are the tasks WebSocketManager.start     *)
(* gathers, each stepping from one await to the next.                       *)

CHECK_DELAY_SECONDS == 10
MAX_CONSECUTIVE_ERRORS == 5

\* delay = min(5 * (2 ** consecutive_errors), 60)
BackoffDelay(errors) == Min(5 * (2 ^ errors), 60)

WarmHistory == [i \in 1..MaxCandles |->
                   [open |-> 100, high |-> 100, low |-> 100, close |-> 100,
                    volume |-> 100]]

PipelineFilters ==
    { FilterRow(1, "price_change",
                [market |-> "spot", interval_minutes |-> n,
                 min_price_change_percent |-> 50, direction |-> "up",
                 min_volume_period |-> 0, min_volume_24h |-> v]) :
        n \in 1..2, v \in {0, 10} }
    \cup { FilterRow(1, "volume_spike",
                     [market |-> "spot", keys |-> "long_period_minutes",
                      short_period_minutes |-> 1, long_period_minutes |-> 2,
                      spike_multiplier |-> 1, min_price_change_percent |-> 0]) }

\* A trigger row a previous run left behind, ten seconds before this one
EarlierTrigger ==
    TriggerRow(1, 1, "f", SYMBOL, "spot", StreamStart - 10, None)

\* WebSocketManager.start: the builder is created and the tasks are gathered
InitStarted ==
    /\ now = StreamStart
    /\ candle_seq = MaxCandles + 1
    /\ tickers = {}
    /\ evalOut = None
    /\ cooldownOut = None
    /\ InitBuilder
    /\ running = TRUE
    /\ filter_check_queue = <<>>
    /\ close_ticks = <<>>
    /\ sched_minute_start = round_to_minute(StreamStart)
    /\ next_check_time = round_to_minute(StreamStart) + MINUTE + CHECK_DELAY_SECONDS
    /\ proc_pc = "get"
    /\ task = None
    /\ finalized = None
    /\ eval_filters = <<>>
    /\ filter_index = 0
    /\ triggers = <<>>
    /\ returned = None
    /\ trigger_marks = <<>>
    /\ broadcasts = <<>>
    /\ alerts = <<>>
    /\ last_update = None
    /\ consecutive_errors = 0
    /\ watch_pc = "watch"
    /\ watch_wake = 0
    /\ gap_request = None
    /\ fill = None
    /\ error_limit_hit = FALSE
    /\ start_pc = "started"
    /\ candles_cache = <<>>
    /\ db_closed = FALSE
    /\ closed_db_call = FALSE
    /\ active_connections = <<>>
    /\ accepted = 0
    /\ chart_broadcast = None
    /\ app_cooldown_minutes = COOLDOWN_MINUTES
    /\ settings_changed_at = None
    /\ loop_pc = Gathered
    /\ cooldown_used = None
    /\ ticked = {}
    /\ check = None
    /\ match = None
    /\ evalPre = None

\* The store after the warm-up: the history was loaded or the load failed;
\* one filter is configured.
Init ==
    /\ InitStarted
    /\ candles \in { {}, DrawnCandles(WarmHistory, StreamStart) }
    /\ last_write = Written(candles)
    /\ \E f \in PipelineFilters : filters = <<f>>
    /\ filter_triggers \in { <<>>, <<EarlierTrigger>> }

\* The clock is observed at seconds 0, 10 and 30 of a minute, while the
\* process runs.  A sleep that is over ends, and a task taken from the queue
\* is worked off, before the next second observed.
Tick ==
    /\ running
    /\ now < StreamEnd
    /\ now < next_check_time
    /\ watch_pc = "sleep" => now < watch_wake
    /\ proc_pc = "get" /\ filter_check_queue = <<>>
    /\ now' = now + ClockStep(now)
    /\ UNCHANGED <<storeVars, callVars, builderVars, pipeVars>>

(* _watch_symbol *)

\* a frame _process_ticker_update drops ("Invalid price")
InvalidPriceZeroAllowed(price) == price < 0

InvalidPrice(price) == price <= 0

\* a frame arrives: consecutive_errors is reset and _process_ticker_update
\* folds the frame into the builder unless its price is not positive
WatchTicker(price) ==
    /\ running
    /\ watch_pc = "watch"
    /\ tick_count < MaxTicks \/ current_minute_start # Some(round_to_minute(now))
    /\ consecutive_errors' = 0
    /\ IF InvalidPrice(price)
       THEN UNCHANGED <<last_update, current_candle, current_minute_start,
                        tick_count, previous_candle, ticked>>
       ELSE LET minute_start == round_to_minute(now)
                b == update(TheBuilder, minute_start, price, 0)
            IN  /\ last_update' = Some(now)
                /\ current_candle' = b.current_candle
                /\ current_minute_start' = b.current_minute_start
                /\ tick_count' = b.tick_count
                /\ previous_candle' = IF current_minute_start # Some(minute_start)
                                      THEN current_candle ELSE previous_candle
                /\ ticked' = ticked \cup {minute_start}
    /\ UNCHANGED <<now, storeVars, callVars, finalizeOut, running, schedVars,
                   procVars, fanoutVars, engineVars, stopVars, chartVars, settingsVars, shutdownVars, watch_pc, watch_wake, gap_request, fill,
                   error_limit_hit,
                   check, match, evalPre>>

\* watch_ticker raises: count the error, at the fifth go and look for gaps,
\* else back off
WatchError ==
    /\ running
    /\ watch_pc = "watch"
    /\ consecutive_errors' = consecutive_errors + 1
    /\ error_limit_hit' = (error_limit_hit
                             \/ consecutive_errors + 1 >= MAX_CONSECUTIVE_ERRORS)
    /\ IF consecutive_errors + 1 >= MAX_CONSECUTIVE_ERRORS
       THEN /\ watch_pc' = "continuity"
            /\ UNCHANGED watch_wake
       ELSE /\ watch_pc' = "sleep"
            /\ watch_wake' = now + BackoffDelay(consecutive_errors + 1)
    /\ UNCHANGED <<now, storeVars, callVars, builderVars, running, schedVars,
                   procVars, fanoutVars, engineVars, stopVars, chartVars, settingsVars, shutdownVars, last_update, gap_request, fill,
                   historyVars>>

WatchWake ==
    /\ watch_pc = "sleep"
    /\ now >= watch_wake
    /\ watch_pc' = IF running THEN "watch" ELSE "done"
    /\ UNCHANGED <<now, storeVars, callVars, builderVars, running, schedVars,
                   procVars, fanoutVars, engineVars, stopVars, chartVars, settingsVars, shutdownVars, last_update, consecutive_errors,
                   watch_wake, gap_request, fill, error_limit_hit, historyVars>>

\* a limit that counts the missing minutes only
GapLimitMissingOnly(gap_minutes) == gap_minutes

\* limit = gap_minutes + 1: the missing minutes and the open one
GapLimit(gap_minutes) == gap_minutes + 1

\* _ensure_data_continuity up to its fetch_ohlcv call: the newest candle of
\* the symbol is read and the missing minutes asked for
ContinuityCheck(fails) ==
    /\ watch_pc = "continuity"
    /\ LET rows == {r \in candles : r.symbol = SYMBOL}
           last_timestamp == (CHOOSE r \in rows :
                                 \A q \in rows : r.timestamp >= q.timestamp).timestamp
           gap_minutes == (get_current_minute_timestamp(now) - last_timestamp)
                              \div MINUTE - 1
           request == IF fails THEN None
                      ELSE IF rows = {}
                           THEN Some([since_ms |-> None, limit |-> HistoryLimit])
                      ELSE IF gap_minutes > 0
                           THEN Some([since_ms |-> Some((last_timestamp + MINUTE) * 1000),
                                      limit |-> GapLimit(gap_minutes)])
                      ELSE None
       IN  /\ gap_request' = request
           /\ fill' = IF request = None THEN fill
                      ELSE Some([newest |-> IF rows = {} THEN None
                                            ELSE Some(last_timestamp),
                                 checked_at |-> now,
                                 answered |-> FALSE,
                                 answered_at |-> now,
                                 raised |-> FALSE,
                                 open_listed |-> FALSE])
           /\ IF request # None
              THEN /\ watch_pc' = "fetch"
                   /\ UNCHANGED <<consecutive_errors, watch_wake>>
              ELSE /\ consecutive_errors' = 0
                   /\ watch_wake' = now + BackoffDelay(0)
                   /\ watch_pc' = "sleep"
    /\ UNCHANGED <<now, storeVars, callVars, builderVars, running, schedVars,
                   procVars, fanoutVars, engineVars, stopVars, chartVars, settingsVars, shutdownVars, last_update, error_limit_hit,
                   historyVars>>

\* fetch_ohlcv answers (or raises) and every row but the last is saved
ContinuityFetched(fails, open_listed) ==
    /\ watch_pc = "fetch"
    /\ fill' = Some([fill[1] EXCEPT !.answered = TRUE, !.answered_at = now,
                                    !.raised = fails,
                                    !.open_listed = open_listed])
    /\ LET rows == fetch_ohlcv(now, gap_request[1].since_ms, gap_request[1].limit,
                               open_listed)
           saved == SaveAllButLast(candles, candle_seq, SYMBOL, "spot", rows)
       IN  /\ candles' = IF fails THEN candles ELSE saved.table
           /\ candle_seq' = IF fails THEN candle_seq ELSE saved.seq
           /\ last_write' = IF fails THEN last_write
                            ELSE PutRows(last_write, SYMBOL, "spot", AllButLastN(rows, 1))
    /\ gap_request' = None
    /\ consecutive_errors' = 0
    /\ watch_wake' = now + BackoffDelay(0)
    /\ watch_pc' = "sleep"
    /\ UNCHANGED <<now, tickers, filters, filter_triggers, callVars, builderVars,
                   running, schedVars, procVars, fanoutVars, engineVars, stopVars, chartVars, settingsVars, shutdownVars, last_update,
                   error_limit_hit,
                   historyVars>>

(* _filter_check_scheduler *)

\* a minute start that lags one minute behind the clock
SchedMinuteStartLagging(clock) == (clock \div MINUTE) * MINUTE - MINUTE

\* current_minute_start = (int(now) // 60) * 60
SchedMinuteStart(clock) == (clock \div MINUTE) * MINUTE

\* the sleep ends: the minute computed before the sleep is queued for every
\* active symbol, and the next sleep is computed from the clock
SchedulerFire ==
    /\ running
    /\ now >= next_check_time
    /\ filter_check_queue' = Append(filter_check_queue,
                                    [symbol |-> SYMBOL,
                                     closed_minute |-> sched_minute_start,
                                     timestamp |-> now])
    /\ close_ticks' = Append(close_ticks, sched_minute_start)
    /\ LET minute_start == SchedMinuteStart(now)
           check_time == minute_start + MINUTE + CHECK_DELAY_SECONDS
       IN  /\ sched_minute_start' = minute_start
           /\ next_check_time' = IF now > check_time THEN check_time + MINUTE
                                 ELSE check_time
    /\ UNCHANGED <<now, storeVars, callVars, builderVars, running, procVars,
                   fanoutVars, engineVars, stopVars, chartVars, settingsVars, shutdownVars, watchVars, historyVars>>

(* _process_filter_checks, _finalize_candle, check_all_filters_for_symbol *)

\* A call on the Database object of the engine.  After Database.close() the
\* aiosqlite connection refuses every statement, so the call raises.
StoreCall(fails) ==
    /\ db_closed => fails
    /\ closed_db_call' = (closed_db_call \/ db_closed)
    /\ UNCHANGED db_closed

TheTask == task[1]
TheFilter == eval_filters[filter_index]
FilterMarket(f) == IF "market" \in DOMAIN f.config THEN f.config.market ELSE "spot"

\* check_all_filters_for_symbol returns `value`; the processor marks the
\* task done and blocks on the queue again
Return(value) ==
    /\ returned' = Some(value)
    /\ proc_pc' = IF running THEN "get" ELSE "done"
    /\ task' = None
    /\ eval_filters' = <<>>
    /\ filter_index' = 0
    /\ triggers' = <<>>

\* the for loop goes on to the next filter_obj, or the function returns
Continue(found) ==
    IF filter_index < Len(eval_filters)
    THEN /\ filter_index' = filter_index + 1
         /\ proc_pc' = "cooldown"
         /\ triggers' = found
         /\ UNCHANGED <<task, eval_filters, returned>>
    ELSE Return(found)

\* a task is taken from the queue and builder.finalize(closed_minute) called
ProcGet ==
    /\ proc_pc = "get"
    /\ filter_check_queue # <<>>
    /\ LET t == Head(filter_check_queue)
           candle == finalize(TheBuilder, t.closed_minute)
           b == finalize_self(TheBuilder, t.closed_minute)
       IN  /\ task' = Some(t)
           /\ current_candle' = b.current_candle
           /\ current_minute_start' = b.current_minute_start
           /\ tick_count' = b.tick_count
           /\ finalized' = candle
           /\ proc_pc' = IF candle # None THEN "save_candle" ELSE "filters"
           /\ check' = Some([closed_minute |-> t.closed_minute,
                             queued_at |-> t.timestamp,
                             finalized |-> candle # None,
                             saved |-> FALSE,
                             save_failed |-> FALSE,
                             close_done |-> candle = None,
                             evaluation_started |-> FALSE])
    /\ filter_check_queue' = Tail(filter_check_queue)
    /\ returned' = None
    /\ evalPre' = None
    /\ UNCHANGED <<now, storeVars, callVars, previous_candle, finalizeOut, running,
                   sched_minute_start, next_check_time, close_ticks, eval_filters,
                   filter_index,
                   triggers, fanoutVars, engineVars, stopVars, chartVars, settingsVars, shutdownVars, watchVars, ticked, match>>

\* await self.db.save_candle(...) of the finalized candle
ProcSaveCandle(fails) ==
    /\ proc_pc = "save_candle"
    /\ StoreCall(fails)
    /\ LET c == finalized[1]
           saved == save_candle(candles, candle_seq, c.symbol, c.market,
                                c.timestamp, c, fails)
       IN  /\ candles' = saved.table
           /\ candle_seq' = saved.seq
           /\ last_write' = IF saved.ok
                            THEN Put(last_write, c.symbol, c.market, c.timestamp, c)
                            ELSE last_write
           /\ check' = Some([check[1] EXCEPT !.saved = saved.ok,
                                              !.save_failed = ~saved.ok,
                                              !.close_done = TRUE])
    /\ finalized' = None
    /\ proc_pc' = "filters"
    /\ UNCHANGED <<now, tickers, filters, filter_triggers, callVars, builderVars,
                   running, schedVars, task, eval_filters, filter_index, triggers,
                   returned, fanoutVars, engineVars, chartVars, settingsVars, shutdownVars, watchVars, ticked, match, evalPre>>

\* check_all_filters_for_symbol starts: the enabled filters are read
ProcFilters(fails) ==
    /\ proc_pc = "filters"
    /\ StoreCall(fails)
    /\ check' = Some([check[1] EXCEPT !.evaluation_started = TRUE])
    /\ LET found == IF fails THEN <<>>
                    ELSE get_active_filters_for_symbol(filters, TheTask.symbol)
       IN  /\ evalPre' =
                 IF found = <<>> THEN None
                 ELSE Some([filter |-> found[1],
                            window |-> get_candles(candles, now, TheTask.symbol,
                                           FilterMarket(found[1]),
                                           IF found[1].type = "price_change"
                                           THEN found[1].config.interval_minutes
                                           ELSE found[1].config.long_period_minutes,
                                           FALSE),
                            rows_before |-> Len(filter_triggers)])
           /\ IF found = <<>>
              THEN /\ Return(<<>>)
                   /\ UNCHANGED finalized
              ELSE /\ eval_filters' = found
                   /\ filter_index' = 1
                   /\ triggers' = <<>>
                   /\ proc_pc' = "cooldown"
                   /\ UNCHANGED <<task, finalized, returned>>
    /\ UNCHANGED <<now, storeVars, callVars, builderVars, running, schedVars,
                   fanoutVars, engineVars, chartVars, settingsVars, shutdownVars, watchVars, ticked, match>>

\* in_cooldown = await _check_cooldown(...); if in_cooldown: continue
ProcCooldown(fails) ==
    /\ proc_pc = "cooldown"
    /\ cooldown_used' = Some([minutes |-> COOLDOWN_MINUTES, at |-> now])
    /\ StoreCall(fails)
    /\ LET in_cooldown == check_cooldown(filter_triggers, now, TheFilter.id,
                                         TheTask.symbol, FilterMarket(TheFilter),
                                         COOLDOWN_MINUTES, fails)
       IN  IF in_cooldown
           THEN Continue(triggers)
           ELSE /\ proc_pc' = "evaluate"
                /\ UNCHANGED <<task, eval_filters, filter_index, triggers, returned>>
    /\ UNCHANGED <<now, storeVars, callVars, builderVars, running, schedVars,
                   finalized, fanoutVars, engineVars, chartVars, app_cooldown_minutes, settings_changed_at, shutdownVars, watchVars, historyVars>>

\* the evaluator of the filter's type is called; a result becomes trigger_data
ProcEvaluate(fails) ==
    /\ proc_pc = "evaluate"
    /\ StoreCall(fails)
    /\ LET f == TheFilter
           market == FilterMarket(f)
           result == IF f.type = "price_change"
                     THEN check_price_change_filter(candles, tickers, now,
                              TheTask.symbol, market, f.config, fails)
                     ELSE IF f.type = "volume_spike"
                     THEN check_volume_spike_filter(candles, now, TheTask.symbol,
                              market, f.config, fails)
                     ELSE None
           trigger_data == [filter_id |-> f.id, filter_name |-> f.name,
                            symbol |-> TheTask.symbol, market |-> market,
                            data |-> result[1],
                            timestamp |-> TheTask.closed_minute]
       IN  IF result # None
           THEN /\ triggers' = Append(triggers, trigger_data)
                /\ proc_pc' = "save_trigger"
                /\ match' = Some([filter_id |-> f.id,
                                  closed_minute |-> TheTask.closed_minute,
                                  save_returned |-> FALSE,
                                  persisted |-> FALSE,
                                  marked |-> FALSE,
                                  broadcast |-> FALSE,
                                  alerted |-> FALSE])
                /\ UNCHANGED <<task, eval_filters, filter_index, returned>>
           ELSE /\ Continue(triggers)
                /\ UNCHANGED match
    /\ UNCHANGED <<now, storeVars, callVars, builderVars, running, schedVars,
                   finalized, fanoutVars, engineVars, chartVars, settingsVars, shutdownVars, watchVars, ticked, check, evalPre>>

\* await _save_trigger(trigger_data, db): the id save_trigger returns is dropped
ProcSaveTrigger(fails) ==
    /\ proc_pc = "save_trigger"
    /\ StoreCall(fails)
    /\ LET t == triggers[Len(triggers)]
           saved == save_trigger(filter_triggers, now, t.filter_id, t.filter_name,
                                 t.symbol, t.market, t.data, fails)
       IN  /\ filter_triggers' = saved.table
           /\ match' = Some([match[1] EXCEPT !.save_returned = TRUE,
                                              !.persisted = saved.trigger_id # 0])
    /\ proc_pc' = "broadcast"
    /\ UNCHANGED <<now, candles, candle_seq, last_write, tickers, filters, callVars,
                   builderVars,
                   running, schedVars, task, finalized, eval_filters, filter_index,
                   triggers, returned, fanoutVars, engineVars, chartVars, settingsVars, shutdownVars, watchVars, ticked, check, evalPre>>

\* cache.add_trigger_mark(...) and await chart_manager.broadcast_trigger_mark(...)
ProcBroadcast ==
    /\ proc_pc = "broadcast"
    /\ LET t == triggers[Len(triggers)]
           cutoff == now - 7200
           mark == [symbol |-> t.symbol, market |-> t.market, timestamp |-> now,
                    filter_id |-> t.filter_id, filter_name |-> t.filter_name,
                    filter_type |-> TheFilter.type]
       IN  /\ trigger_marks' = SelectSeq(Append(trigger_marks, mark),
                                         LAMBDA m : m.timestamp > cutoff)
           /\ broadcasts' = Append(broadcasts,
                                   [type |-> "trigger_mark", symbol |-> t.symbol,
                                    market |-> t.market, time |-> now,
                                    filter_name |-> t.filter_name,
                                    filter_type |-> TheFilter.type])
    /\ match' = Some([match[1] EXCEPT !.marked = TRUE, !.broadcast = TRUE])
    /\ proc_pc' = "notify"
    /\ UNCHANGED <<now, storeVars, callVars, builderVars, running, schedVars, task,
                   finalized, eval_filters, filter_index, triggers, returned, alerts,
                   engineVars, stopVars, chartVars, settingsVars, shutdownVars, watchVars, ticked, check, evalPre>>

\* engine.notifier: None from ScreenerEngine.__init__ on, assigned nowhere else
EngineNotifier == None

\* _send_telegram_alert: whether a send to the chat service was attempted and
\* whether it went out.  Without a notifier the call logs "No telegram
\* notifier available"; with one, send_trigger_notification is called with
\* the keyword trigger_data it does not have and without filter_type, data
\* and url, and the TypeError is caught and logged.
send_telegram_alert(notifier) ==
    IF notifier = None THEN [attempted |-> FALSE, sent |-> FALSE]
    ELSE [attempted |-> FALSE, sent |-> FALSE]

\* await _send_telegram_alert(trigger_data)
ProcNotify ==
    /\ proc_pc = "notify"
    /\ LET t == triggers[Len(triggers)]
           outcome == send_telegram_alert(EngineNotifier)
       IN  alerts' = Append(alerts, [filter_id |-> t.filter_id,
                                     filter_name |-> t.filter_name,
                                     symbol |-> t.symbol,
                                     attempted |-> outcome.attempted,
                                     sent |-> outcome.sent])
    /\ match' = Some([match[1] EXCEPT !.alerted = TRUE])
    /\ Continue(triggers)
    /\ UNCHANGED <<now, storeVars, callVars, builderVars, running, schedVars,
                   finalized, trigger_marks, broadcasts, engineVars, stopVars, chartVars, settingsVars, shutdownVars, watchVars, ticked,
                   check, evalPre>>

(* main.py lifespan: screener_task.cancel() *)

\* CancelledError is raised in every gathered task at the await it is
\* suspended in; start() sets running = False
Cancel ==
    /\ running
    /\ running' = FALSE
    /\ proc_pc' = "cancelled"
    /\ watch_pc' = "cancelled"
    /\ UNCHANGED <<now, storeVars, callVars, builderVars, schedVars, task, finalized,
                   eval_filters, filter_index, triggers, returned, fanoutVars, engineVars, stopVars, chartVars, settingsVars, shutdownVars,
                   last_update, consecutive_errors, watch_wake, gap_request, fill, error_limit_hit,
                   historyVars>>

FramePrices == Prices \cup {0}

Next ==
    \/ Tick
    \/ \E price \in FramePrices : WatchTicker(price)
    \/ SchedulerFire
    \/ ProcGet
    \/ \E fails \in BOOLEAN : ProcSaveCandle(fails)
    \/ \E fails \in BOOLEAN : ProcFilters(fails)
    \/ \E fails \in BOOLEAN : ProcCooldown(fails)
    \/ \E fails \in BOOLEAN : ProcEvaluate(fails)
    \/ \E fails \in BOOLEAN : ProcSaveTrigger(fails)
    \/ ProcBroadcast
    \/ ProcNotify
    \/ Cancel

Spec == Init /\ [][Next]_vars

\* C1: when a filter check that found an enabled price_change filter with a
\* full window, a direction/threshold predicate that holds, both volume gates
\* at 0 and no trigger row has returned (the window still as it was found),
\* it has persisted exactly one trigger row and returned exactly one trigger,
\* with price_from the first open and price_to the last close of the window.
C1_OneTriggerPersistedAndReturned ==
    ( /\ evalPre # None
      /\ returned # None
      /\ evalPre[1].filter.type = "price_change"
      /\ evalPre[1].filter.enabled
      /\ Len(evalPre[1].window) >= evalPre[1].filter.config.interval_minutes
      /\ evalPre[1].window[1].open > 0
      /\ DirectionTriggered(evalPre[1].filter.config.direction,
                            evalPre[1].window[1].open,
                            evalPre[1].window[Len(evalPre[1].window)].close,
                            evalPre[1].filter.config.min_price_change_percent)
      /\ evalPre[1].filter.config.min_volume_24h = 0
      /\ evalPre[1].filter.config.min_volume_period = 0
      /\ evalPre[1].rows_before = 0
      /\ get_candles(candles, now, SYMBOL, "spot",
                     evalPre[1].filter.config.interval_minutes, FALSE)
             = evalPre[1].window )
    => /\ Len(returned[1]) = 1
       /\ returned[1][1].data.price_from = evalPre[1].window[1].open
       /\ returned[1][1].data.price_to
              = evalPre[1].window[Len(evalPre[1].window)].close
       /\ Len(filter_triggers) = 1
       /\ filter_triggers[1].filter_id = evalPre[1].filter.id
       /\ filter_triggers[1].symbol = SYMBOL

\* C2: any two trigger rows of the same (filter_id, symbol) lie at least
\* cooldown_minutes * 60 seconds apart, whatever the store held at the start
\* and whichever reads failed.
C2_TriggerRowsCooldownApart ==
    \A i, j \in 1..Len(filter_triggers) :
        ( /\ i < j
          /\ filter_triggers[i].filter_id = filter_triggers[j].filter_id
          /\ filter_triggers[i].symbol = filter_triggers[j].symbol )
        => filter_triggers[j].triggered_at - filter_triggers[i].triggered_at
               >= COOLDOWN_MINUTES * MINUTE

\* C5: the cache mark, the chart broadcast and the notification of a trigger
\* match are attempted only when save_trigger has persisted its row.
C5_FanoutOnlyAfterPersist ==
    ( /\ match # None
      /\ match[1].marked \/ match[1].broadcast \/ match[1].alerted )
    => match[1].persisted

\* C6: the filter check of a (symbol, minute) starts only when the candle of
\* that minute was finalized and save_candle has stored it.
C6_EvaluationOnlyAfterCandleSaved ==
    (check # None /\ check[1].evaluation_started)
    => ( /\ check[1].finalized
         /\ check[1].saved
         /\ \E r \in candles : /\ r.symbol = SYMBOL
                               /\ r.timestamp = check[1].closed_minute )

\* C7: once the screener task is cancelled, a trigger row that was persisted
\* has had its chart broadcast and its notification attempted.
C7_NoOrphanedTriggerAfterStop ==
    (~running /\ match # None /\ match[1].persisted)
    => (match[1].broadcast /\ match[1].alerted)

\* C23: for every trigger row an evaluation has persisted, a send of its
\* notification to the chat service is attempted (it may fail): once
\* _send_telegram_alert has returned for the match, an attempt is on record.
C23_NotificationAttempted ==
    (match # None /\ match[1].persisted /\ match[1].alerted)
    => \E i \in 1..Len(alerts) : /\ alerts[i].filter_id = match[1].filter_id
                                 /\ alerts[i].symbol = SYMBOL
                                 /\ alerts[i].attempted

\* C24: a trigger row of this run whose notification was not sent has
\* notified = 0; notified is 1 only for a row whose notification went out.
C24_NotifiedOnlyWhenSent ==
    \A i \in 1..Len(filter_triggers) :
        ( /\ filter_triggers[i].triggered_at >= StreamStart
          /\ filter_triggers[i].notified = 1 )
        => \E j \in 1..Len(alerts) :
               /\ alerts[j].filter_id = filter_triggers[i].filter_id
               /\ alerts[j].symbol = filter_triggers[i].symbol
               /\ alerts[j].sent

-----------------------------------------------------------------------------
(* SpecGap: the pipeline with a watcher whose stream may fail, and no filter *)
(* configured                                                                *)

InitGap ==
    /\ InitStarted
    /\ candles \in { {}, DrawnCandles(WarmHistory, StreamStart) }
    /\ last_write = Written(candles)
    /\ filters = <<>>
    /\ filter_triggers = <<>>

NextGap ==
    \/ Tick
    \/ \E price \in FramePrices : WatchTicker(price)
    \/ WatchError
    \/ WatchWake
    \/ \E fails \in BOOLEAN : ContinuityCheck(fails)
    \/ \E fails, open_listed \in BOOLEAN : ContinuityFetched(fails, open_listed)
    \/ SchedulerFire
    \/ ProcGet
    \/ \E fails \in BOOLEAN : ProcSaveCandle(fails)
    \/ \E fails \in BOOLEAN : ProcFilters(fails)

SpecGap == InitGap /\ [][NextGap]_vars

\* C4: when the close tick of a minute in which frames reached the builder
\* has been processed on time, and no store write failed, the candle of that
\* minute is in the store or a gap-fill covering the minute is under way.
C4_CandleStoredOrGapFillInFlight ==
    ( /\ check # None
      /\ check[1].close_done
      /\ ~check[1].save_failed
      /\ check[1].closed_minute \in ticked
      /\ check[1].queued_at = check[1].closed_minute + MINUTE + CHECK_DELAY_SECONDS )
    => \/ \E r \in candles : /\ r.symbol = SYMBOL
                             /\ r.market = "spot"
                             /\ r.timestamp = check[1].closed_minute
       \/ watch_pc = "continuity"
       \/ /\ gap_request # None
          /\ check[1].closed_minute \in RequestedMinutes(gap_request[1], now)

-----------------------------------------------------------------------------
(* More claims about the evaluators, checked under SpecEval *)

\* C11: for a volume_spike config stored under the names of VolumeSpikeConfig
\* (base_period_minutes, spike_coefficient), with the price guard at 0, a
\* full window and a historical volume above 0, the evaluator returns a
\* trigger exactly when the volume of the last short_period_minutes candles,
\* divided by the mean volume of the other candles, reaches the coefficient.
C11_VolumeSpikeIffRatio ==
    ( /\ evalOut # None
      /\ evalOut[1].type = "volume_spike"
      /\ EvalConfig.keys = "base_period_minutes"
      /\ EvalConfig.min_price_change_percent = 0
      /\ Len(evalOut[1].window) >= evalOut[1].required
      /\ Len(evalOut[1].window) > EvalConfig.short_period_minutes
      /\ SumVolume(AllButLastN(evalOut[1].window, EvalConfig.short_period_minutes)) > 0 )
    => ( evalOut[1].result # None
         <=> SumVolume(LastN(evalOut[1].window, EvalConfig.short_period_minutes))
                 * Len(AllButLastN(evalOut[1].window, EvalConfig.short_period_minutes))
             >= EvalConfig.spike_multiplier
                 * SumVolume(AllButLastN(evalOut[1].window,
                                         EvalConfig.short_period_minutes)) )

-----------------------------------------------------------------------------
(* SpecStream: the pipeline with a healthy stream and no filter configured: *)
(* frames, the scheduler, finalization and save_candle                      *)

InitStream ==
    /\ InitStarted
    /\ candles = {}
    /\ last_write = {}
    /\ filters = <<>>
    /\ filter_triggers = <<>>

NextStream ==
    \/ Tick
    \/ \E price \in FramePrices : WatchTicker(price)
    \/ SchedulerFire
    \/ ProcGet
    \/ \E fails \in BOOLEAN : ProcSaveCandle(fails)
    \/ \E fails \in BOOLEAN : ProcFilters(fails)

SpecStream == InitStream /\ [][NextStream]_vars

ValidCandle(c) ==
    /\ c.low <= c.open /\ c.open <= c.high
    /\ c.low <= c.close /\ c.close <= c.high
    /\ c.timestamp % MINUTE = 0
    /\ c.open > 0 /\ c.high > 0 /\ c.low > 0 /\ c.close > 0
    /\ c.volume >= 0

\* C13: whatever frames _process_ticker_update was given, the candle the
\* builder holds and every candle row finalization wrote have
\* low <= open <= high, low <= close <= high, a timestamp on the minute,
\* prices above 0 and a volume >= 0.
C13_BuiltCandlesAreValid ==
    /\ current_candle # None => ValidCandle(current_candle[1])
    /\ \A r \in candles : ValidCandle(r)

\* A finalized row with high above low is stored while the builder holds a
\* two-tick candle of a later minute
C13_Witness ==
    /\ \E r \in candles : r.high > r.low
    /\ current_candle # None
    /\ current_candle[1].tick_count = 2
    /\ current_candle[1].high > current_candle[1].low

-----------------------------------------------------------------------------
(* The watcher with its errors and gap-fill, the scheduler and the          *)
(* processor, every frame carrying the same valid price: the candle writers *)
(* of the pipeline without the variety of candle shapes.                    *)

InitFill == InitGap

NextFill ==
    \/ Tick
    \/ WatchTicker(100)
    \/ WatchError
    \/ WatchWake
    \/ \E fails \in BOOLEAN : ContinuityCheck(fails)
    \/ \E fails, open_listed \in BOOLEAN : ContinuityFetched(fails, open_listed)
    \/ SchedulerFire
    \/ ProcGet
    \/ \E fails \in BOOLEAN : ProcSaveCandle(fails)
    \/ \E fails \in BOOLEAN : ProcFilters(fails)

SpecFill == InitFill /\ [][NextFill]_vars

-----------------------------------------------------------------------------
(* Claims about the candle writers, checked under SpecFill *)

\* C14: every candle row of the store is of a minute before the current
\* minute, from the moment it is written: neither finalization nor a REST
\* backfill writes the candle of the minute still open.
C14_StoredCandlesAreClosed ==
    \A r \in candles : r.timestamp < get_current_minute_timestamp(now)

\* The store holds a row finalized from the stream (volume 0) and a row a
\* backfill wrote (volume 100), both of minutes of this run
C14_Witness ==
    /\ \E r \in candles : r.timestamp >= StreamStart /\ r.volume = 0
    /\ \E r \in candles : r.timestamp >= StreamStart /\ r.volume = 100
    /\ fill # None /\ fill[1].answered /\ fill[1].open_listed

-----------------------------------------------------------------------------
(* The candles table under direct calls of its writers: save_candle as      *)
(* _finalize_candle calls it, save_candle as _save_ohlcv_candle calls it    *)
(* for a REST row, and the batch save_candles.                              *)

MaxSaves == 4           \* rows a run of the store's writers may insert

StoreMinutes == {StreamStart, StreamStart + MINUTE}

\* rows of fetch_ohlcv for a minute: [timestamp_ms, o, h, l, c, v]
OhlcvRows == { <<m * 1000, 100, 100, 100, 100, 1>> : m \in StoreMinutes }
                 \cup { <<m * 1000, 100, 200, 100, 200, 2>> : m \in StoreMinutes }

\* candle dicts handed to save_candles
CandleDicts ==
    { [timestamp |-> m, open |-> c.open, high |-> c.high, low |-> c.low,
       close |-> c.close, volume |-> c.volume] :
        m \in StoreMinutes, c \in {s \in CandleShapes : s.open > 0} }

InitStore ==
    /\ now = StreamStart
    /\ candles = {}
    /\ last_write = {}
    /\ candle_seq = 1
    /\ tickers = {}
    /\ filters = <<>>
    /\ filter_triggers = <<>>
    /\ evalOut = None
    /\ cooldownOut = None
    /\ InitBuilder
    /\ InitStopped

\* _finalize_candle: db.save_candle(candle of the closed minute)
StoreSaveCandle(timestamp, c, fails) ==
    /\ candle_seq <= MaxSaves
    /\ LET saved == save_candle(candles, candle_seq, SYMBOL, "spot", timestamp, c, fails)
       IN  /\ candles' = saved.table
           /\ candle_seq' = saved.seq
           /\ last_write' = IF saved.ok
                            THEN Put(last_write, SYMBOL, "spot", timestamp, c)
                            ELSE last_write
    /\ UNCHANGED <<now, tickers, filters, filter_triggers, callVars, builderVars,
                   pipeVars>>

\* _save_ohlcv_candle(symbol, market, candle_data)
StoreSaveOhlcv(candle_data) ==
    /\ candle_seq <= MaxSaves
    /\ LET saved == save_ohlcv_candle(candles, candle_seq, SYMBOL, "spot", candle_data)
       IN  /\ candles' = saved.table
           /\ candle_seq' = saved.seq
           /\ last_write' = PutRows(last_write, SYMBOL, "spot", <<candle_data>>)
    /\ UNCHANGED <<now, tickers, filters, filter_triggers, callVars, builderVars,
                   pipeVars>>

\* db.save_candles(symbol, market, [first, second])
StoreSaveCandles(first, second, fails) ==
    /\ candle_seq + 1 <= MaxSaves
    /\ LET saved == save_candles(candles, candle_seq, SYMBOL, "spot",
                                 <<first, second>>, fails)
       IN  /\ candles' = saved.table
           /\ candle_seq' = saved.seq
           /\ last_write' = IF saved.count = 0 THEN last_write
                            ELSE Put(Put(last_write, SYMBOL, "spot",
                                         first.timestamp, first),
                                     SYMBOL, "spot", second.timestamp, second)
    /\ UNCHANGED <<now, tickers, filters, filter_triggers, callVars, builderVars,
                   pipeVars>>

NextStore ==
    \/ \E timestamp \in StoreMinutes, c \in CandleShapes, fails \in BOOLEAN :
           StoreSaveCandle(timestamp, c, fails)
    \/ \E candle_data \in OhlcvRows : StoreSaveOhlcv(candle_data)
    \/ \E first, second \in CandleDicts, fails \in BOOLEAN :
           StoreSaveCandles(first, second, fails)

SpecStore == InitStore /\ [][NextStore]_vars

\* C15: after any sequence of save_candle / save_candles calls the store
\* holds at most one candle row per (symbol, market, timestamp), and the row
\* of a key carries the values of the last write of that key.
C15_OneRowPerKeyWithLastWrite ==
    /\ \A r, q \in candles :
           CandleKey(r.symbol, r.market, r.timestamp)
               = CandleKey(q.symbol, q.market, q.timestamp) => r = q
    /\ Written(candles) = last_write

\* A key written by the stream and by a backfill: rows were replaced, the
\* row of one minute carries a stream candle, the other a REST candle
C15_Witness ==
    /\ candle_seq > Cardinality(candles) + 2
    /\ \E r \in candles : r.timestamp = StreamStart /\ r.volume = 4
    /\ \E r \in candles : r.timestamp = StreamStart + MINUTE /\ r.volume = 300

\* C16: a save_candle call with a candle identical to the stored one of its
\* key leaves the candles table as it was, row ids included.
C16_ResaveLeavesTableUnchanged ==
    [][\A timestamp \in StoreMinutes, c \in CandleShapes :
          ( /\ StoreSaveCandle(timestamp, c, FALSE)
            /\ \E r \in candles : /\ r.timestamp = timestamp
                                  /\ CandleValues(r) = CandleValues(c) )
          => candles' = candles]_vars

-----------------------------------------------------------------------------
(* ScreenerEngine.start: cache warm-up from the store, then                 *)
(* WebSocketManager.start with the REST history load.  The 120 minutes of   *)
(* history (121 rows asked of the exchange) are MaxCandles minutes here.    *)

HistoryMinutes == MaxCandles    \* minutes=120, MAX_CANDLES_IN_CACHE, count >= 120

\* database.get_symbols_for_market
get_symbols_for_market(table, market, fails) ==
    IF fails THEN {} ELSE {r.symbol : r \in {t \in table : t.market = market}}

\* database.get_candles returns dicts of these keys
CandleDict(r) ==
    [timestamp |-> r.timestamp, open |-> r.open, high |-> r.high, low |-> r.low,
     close |-> r.close, volume |-> r.volume]

CandleDicts120(rows) == [i \in 1..Len(rows) |-> CandleDict(rows[i])]

\* {'timestamp': c[0], 'open': c[1], ...} for a dict c: the keys looked up
\* are the integers 0..5 (written "0".."5" here); a missing key raises
\* KeyError, which is None
FromPositions(c) ==
    IF {"0", "1", "2", "3", "4", "5"} \subseteq DOMAIN c
    THEN Some([timestamp |-> c["0"], open |-> c["1"], high |-> c["2"],
               low |-> c["3"], close |-> c["4"], volume |-> c["5"]])
    ELSE None

\* sorted(candles, key=lambda x: x['timestamp']) and list.sort: stable, so
\* candles of one timestamp stay in the order they came in
InsertByTimestamp(sorted, c) ==
    LET before == SelectSeq(sorted, LAMBDA x : x.timestamp <= c.timestamp)
        after == SelectSeq(sorted, LAMBDA x : x.timestamp > c.timestamp)
    IN  before \o <<c>> \o after

RECURSIVE SortedByTimestamp(_)
SortedByTimestamp(cs) ==
    IF cs = <<>> THEN <<>>
    ELSE InsertByTimestamp(SortedByTimestamp(AllButLastN(cs, 1)), cs[Len(cs)])

\* cache.bulk_update_candles: sorted by timestamp, the last 120 kept
bulk_update_candles(cs) == LastN(SortedByTimestamp(cs), HistoryMinutes)

\* cache.update_candle: the first candle of the same timestamp is replaced,
\* else the candle is appended and the ring sorted; the last 120 are kept
update_candle(ring, candle) ==
    LET found == {i \in 1..Len(ring) : ring[i].timestamp = candle.timestamp}
        existing_index == CHOOSE i \in found : \A j \in found : i <= j
        updated == IF found # {} THEN [ring EXCEPT ![existing_index] = candle]
                   ELSE SortedByTimestamp(Append(ring, candle))
    IN  IF Len(updated) > HistoryMinutes THEN LastN(updated, HistoryMinutes)
        ELSE updated

\* the warm-up of one symbol of the tickers table; any exception leaves the
\* cache as it was
WarmedCache(cached, table, clock, fails) ==
    LET rows == CandleDicts120(get_candles(table, clock, SYMBOL, "spot",
                                           HistoryMinutes, fails))
        data == [i \in 1..Len(rows) |-> FromPositions(rows[i])]
    IN  IF rows = <<>> THEN cached
        ELSE IF \E i \in 1..Len(data) : data[i] = None THEN cached
        ELSE bulk_update_candles([i \in 1..Len(data) |-> data[i][1]])

\* ScreenerEngine.__init__ and main.py before start(): all but the clock and
\* the candles table
StartupRest ==
    /\ candle_seq = MaxCandles + 1
    /\ tickers \in DrawnTickers
    /\ \E f \in PipelineFilters : filters = <<f>>
    /\ filter_triggers = <<>>
    /\ evalOut = None
    /\ cooldownOut = None
    /\ InitBuilder
    /\ running = FALSE
    /\ filter_check_queue = <<>>
    /\ close_ticks = <<>>
    /\ sched_minute_start = 0
    /\ next_check_time = 0
    /\ proc_pc = "stopped"
    /\ task = None
    /\ finalized = None
    /\ eval_filters = <<>>
    /\ filter_index = 0
    /\ triggers = <<>>
    /\ returned = None
    /\ trigger_marks = <<>>
    /\ broadcasts = <<>>
    /\ alerts = <<>>
    /\ last_update = None
    /\ consecutive_errors = 0
    /\ watch_pc = "stopped"
    /\ watch_wake = 0
    /\ gap_request = None
    /\ fill = None
    /\ error_limit_hit = FALSE
    /\ ticked = {}
    /\ check = None
    /\ match = None
    /\ evalPre = None
    /\ start_pc = "warm_cache"
    /\ candles_cache = <<>>
    /\ db_closed = FALSE
    /\ closed_db_call = FALSE
    /\ active_connections = <<>>
    /\ accepted = 0
    /\ chart_broadcast = None
    /\ app_cooldown_minutes = COOLDOWN_MINUTES
    /\ settings_changed_at = None
    /\ loop_pc = NotStarted
    /\ cooldown_used = None

InitStartup ==
    /\ now = StreamStart
    /\ \E history \in Histories : candles = DrawnCandles(history, StreamStart)
    /\ last_write = Written(candles)
    /\ StartupRest

\* start, step "Warm up cache from database"
EngineWarmCache(fails) ==
    /\ start_pc = "warm_cache"
    /\ candles_cache' =
          IF SYMBOL \in get_symbols_for_market(tickers, "spot", FALSE)
          THEN WarmedCache(candles_cache, candles, now, fails)
          ELSE candles_cache
    /\ start_pc' = "start_manager"
    /\ UNCHANGED <<now, storeVars, callVars, builderVars, running, schedVars,
                   procVars, fanoutVars, stopVars, chartVars, settingsVars, shutdownVars, watchVars, historyVars>>

\* ws_manager.start: _load_initial_history loads the symbol's history unless
\* the store holds 120 rows of it; then the tasks are started
EngineStartManager(fails, open_listed) ==
    /\ start_pc = "start_manager"
    /\ LET count == Cardinality({r \in candles : r.symbol = SYMBOL})
           rows == fetch_ohlcv(now, None, HistoryLimit, open_listed)
           saved == SaveAllButLast(candles, candle_seq, SYMBOL, "spot", rows)
           skip == count >= HistoryMinutes \/ fails
       IN  /\ candles' = IF skip THEN candles ELSE saved.table
           /\ candle_seq' = IF skip THEN candle_seq ELSE saved.seq
           /\ last_write' = IF skip THEN last_write
                            ELSE PutRows(last_write, SYMBOL, "spot",
                                         AllButLastN(rows, 1))
    /\ running' = TRUE
    /\ sched_minute_start' = round_to_minute(now)
    /\ next_check_time' = round_to_minute(now) + MINUTE + CHECK_DELAY_SECONDS
    /\ proc_pc' = "get"
    /\ watch_pc' = "watch"
    /\ start_pc' = "started"
    /\ UNCHANGED <<now, tickers, filters, filter_triggers, callVars, builderVars,
                   filter_check_queue, close_ticks, task, finalized, eval_filters,
                   filter_index, triggers, returned, fanoutVars, candles_cache, stopVars, chartVars, settingsVars, shutdownVars,
                   last_update, consecutive_errors, watch_wake, gap_request, fill,
                   error_limit_hit, historyVars>>

NextStartup ==
    \/ \E fails \in BOOLEAN : EngineWarmCache(fails)
    \/ \E fails, open_listed \in BOOLEAN : EngineStartManager(fails, open_listed)

SpecStartup == InitStartup /\ [][NextStartup]_vars

\* C18: once the warm-up is over (cache warmed from the store, REST history
\* loaded) and before the first close tick, the cache ring of the watched
\* symbol equals store.get_candles(symbol, market, 120): the same candles in
\* the same ascending order.
C18_CacheEqualsStoreAfterWarmup ==
    (start_pc = "started" /\ now < next_check_time)
        => candles_cache = CandleDicts120(get_candles(candles, now, SYMBOL, "spot",
                                                      HistoryMinutes, FALSE))

-----------------------------------------------------------------------------
(* More claims about the watcher, checked under SpecFill and SpecGap *)

C20_WatcherRetiresAfterErrorLimit ==
    error_limit_hit => watch_pc # "watch"

-----------------------------------------------------------------------------
(* The scheduler under an event loop that may wake it late: the clock moves *)
(* on whether or not the sleep of the scheduler is over and whether or not  *)
(* the processor has worked off its queue.  No frame arrives.                *)

\* the run lasts until the close tick after StreamEnd is due
SchedEnd == StreamEnd + MINUTE + CHECK_DELAY_SECONDS

LateTick ==
    /\ running
    /\ now < SchedEnd
    /\ now' = now + ClockStep(now)
    /\ UNCHANGED <<storeVars, callVars, builderVars, pipeVars>>

InitSched == InitStream

NextSched ==
    \/ LateTick
    \/ SchedulerFire
    \/ ProcGet
    \/ \E fails \in BOOLEAN : ProcFilters(fails)

SpecSched == InitSched /\ [][NextSched]_vars

\* C21: a (symbol, closed_minute) pair is enqueued at most once: the close
\* ticks of a run carry strictly increasing minutes.
C21_CloseTicksStrictlyIncrease ==
    \A i \in 1..Len(close_ticks) : \A j \in 1..Len(close_ticks) :
        i < j => close_ticks[i] < close_ticks[j]

\* Three close ticks, one of them of a scheduler woken after the next minute
\* had begun
C21_Witness ==
    /\ Len(close_ticks) >= 3
    /\ \E i \in 1..(Len(close_ticks) - 1) : close_ticks[i + 1] - close_ticks[i] > MINUTE

\* C22: successive close ticks carry consecutive minutes, each exactly 60 s
\* after the one before, also when a wake-up comes late.
C22_CloseTicksConsecutive ==
    \A i \in 1..(Len(close_ticks) - 1) : close_ticks[i + 1] = close_ticks[i] + MINUTE

-----------------------------------------------------------------------------
(* cache.py under direct calls: update_candle and bulk_update_candles on    *)
(* the ring of one (symbol, market), with lists in any order and with       *)
(* repeated timestamps.  The ring keeps HistoryMinutes candles (120).        *)

MaxBulk == 3            \* candles in one list handed to bulk_update_candles

CacheMinutes == {StreamStart + k * MINUTE : k \in 0..MaxCandles}

CacheCandles ==
    { [timestamp |-> m, open |-> 100, high |-> p, low |-> 100, close |-> p,
       volume |-> 0] : m \in CacheMinutes, p \in Prices }

RECURSIVE CandleLists(_)
CandleLists(n) ==
    IF n = 0 THEN {<<>>}
    ELSE CandleLists(n - 1)
            \cup {Append(l, c) : l \in {k \in CandleLists(n - 1) : Len(k) = n - 1},
                                 c \in CacheCandles}

InitCache ==
    /\ now = StreamStart
    /\ candles = {}
    /\ last_write = {}
    /\ candle_seq = 1
    /\ tickers = {}
    /\ filters = <<>>
    /\ filter_triggers = <<>>
    /\ evalOut = None
    /\ cooldownOut = None
    /\ InitBuilder
    /\ InitStopped

CacheUpdateCandle(candle) ==
    /\ candles_cache' = update_candle(candles_cache, candle)
    /\ UNCHANGED <<now, storeVars, callVars, builderVars, running, schedVars,
                   procVars, fanoutVars, start_pc, stopVars, chartVars, settingsVars, shutdownVars, watchVars, historyVars>>

CacheBulkUpdate(list) ==
    /\ candles_cache' = bulk_update_candles(list)
    /\ UNCHANGED <<now, storeVars, callVars, builderVars, running, schedVars,
                   procVars, fanoutVars, start_pc, stopVars, chartVars, settingsVars, shutdownVars, watchVars, historyVars>>

NextCache ==
    \/ \E candle \in CacheCandles : CacheUpdateCandle(candle)
    \/ \E list \in CandleLists(MaxBulk) : CacheBulkUpdate(list)

SpecCache == InitCache /\ [][NextCache]_vars

\* C25: after any sequence of update_candle and bulk_update_candles calls,
\* whatever the order of the lists and however often a timestamp is repeated
\* in them, the ring holds at most 120 candles in strictly ascending
\* timestamp order, hence at most one candle per timestamp.
C25_RingBoundedAndStrictlyAscending ==
    /\ Len(candles_cache) <= HistoryMinutes
    /\ \A i \in 1..Len(candles_cache) : \A j \in 1..Len(candles_cache) :
           i < j => candles_cache[i].timestamp < candles_cache[j].timestamp

\* the ring is bounded and ascending, two candles of one timestamp allowed
RingBoundedAndAscending ==
    /\ Len(candles_cache) <= HistoryMinutes
    /\ \A i \in 1..Len(candles_cache) : \A j \in 1..Len(candles_cache) :
           i < j => candles_cache[i].timestamp <= candles_cache[j].timestamp

-----------------------------------------------------------------------------
(* More claims about the close of a candle, checked under SpecStream *)

\* C26: a candle that _finalize_candle has persisted is in the cache ring of
\* its (symbol, market) and has been broadcast as a candle_update before the
\* filter check of that (symbol, minute) starts.
C26_SavedCandleCachedAndBroadcast ==
    (check # None /\ check[1].saved /\ check[1].evaluation_started)
    => /\ \E i \in 1..Len(candles_cache) :
              candles_cache[i].timestamp = check[1].closed_minute
       /\ \E i \in 1..Len(broadcasts) :
              /\ broadcasts[i].type = "candle_update"
              /\ broadcasts[i].time = check[1].closed_minute

-----------------------------------------------------------------------------
(* SpecPending: the pipeline with one price_change filter, where the clock  *)
(* also goes on while the processor waits in broadcast_trigger_mark for a   *)
(* chart connection to take the message.  The store round trips, the        *)
(* scheduler and the notification step return; the send is left to the peer *)

PendingFilter ==
    FilterRow(1, "price_change",
              [market |-> "spot", interval_minutes |-> 2,
               min_price_change_percent |-> 50, direction |-> "up",
               min_volume_period |-> 0, min_volume_24h |-> 10])

InitPending ==
    /\ InitStarted
    /\ candles = DrawnCandles(WarmHistory, StreamStart)
    /\ last_write = Written(candles)
    /\ filters = <<PendingFilter>>
    /\ filter_triggers = <<>>

\* await websocket.send_text(message_json) has not returned: the event loop
\* runs the other tasks, and the one processor task stays in the call
SendPending == proc_pc = "broadcast"

SendTick ==
    /\ running
    /\ now < StreamEnd
    /\ now < next_check_time
    /\ watch_pc = "sleep" => now < watch_wake
    /\ SendPending
    /\ now' = now + ClockStep(now)
    /\ UNCHANGED <<storeVars, callVars, builderVars, pipeVars>>

NextPending ==
    \/ Tick
    \/ SendTick
    \/ \E price \in FramePrices : WatchTicker(price)
    \/ SchedulerFire
    \/ ProcGet
    \/ \E fails \in BOOLEAN : ProcSaveCandle(fails)
    \/ \E fails \in BOOLEAN : ProcFilters(fails)
    \/ \E fails \in BOOLEAN : ProcCooldown(fails)
    \/ \E fails \in BOOLEAN : ProcEvaluate(fails)
    \/ \E fails \in BOOLEAN : ProcSaveTrigger(fails)
    \/ ProcBroadcast
    \/ ProcNotify

SpecPending == InitPending /\ [][NextPending]_vars

\* C27: while a chart broadcast of one trigger waits at its send and another
\* task is queued, the evaluation of that task can start: the step that
\* takes it from the queue is possible.
C27_QueuedTaskCanStartDuringSend ==
    (SendPending /\ filter_check_queue # <<>>) => ENABLED ProcGet

-----------------------------------------------------------------------------
(* SpecStop: the stream pipeline and the stop a shutdown signal starts:     *)
(* signal_handler creates a task for stop_screener(), which runs            *)
(* ScreenerEngine.stop beside the tasks WebSocketManager.start gathered.    *)
(* None of them is cancelled.                                               *)

\* ScreenerEngine.stop up to ws_manager.stop(): both running flags are
\* cleared and the call waits in exchange.close()
SignalStop ==
    /\ running
    /\ running' = FALSE
    /\ UNCHANGED <<now, storeVars, callVars, builderVars, schedVars, procVars,
                   fanoutVars, engineVars, stopVars, chartVars, settingsVars, shutdownVars, watchVars, historyVars>>

\* ScreenerEngine.stop: await self.database.close()
CloseDatabase ==
    /\ ~running
    /\ ~db_closed
    /\ db_closed' = TRUE
    /\ UNCHANGED <<now, storeVars, callVars, builderVars, running, schedVars,
                   procVars, fanoutVars, engineVars, closed_db_call, chartVars, settingsVars, shutdownVars, watchVars,
                   historyVars>>

InitStop == InitStream

NextStop ==
    \/ Tick
    \/ \E price \in FramePrices : WatchTicker(price)
    \/ SchedulerFire
    \/ ProcGet
    \/ \E fails \in BOOLEAN : ProcSaveCandle(fails)
    \/ \E fails \in BOOLEAN : ProcFilters(fails)
    \/ SignalStop
    \/ CloseDatabase

SpecStop == InitStop /\ [][NextStop]_vars

\* _finalize_candle or check_all_filters_for_symbol is running for a task
EvaluationInFlight == proc_pc \in {"save_candle", "filters"}

\* C28: the store is closed only when no finalization or filter check is in
\* flight, and no store call is made once it is closed.
C28_StoreClosedAfterEvaluations ==
    /\ db_closed => ~EvaluationInFlight
    /\ ~closed_db_call

-----------------------------------------------------------------------------
(* SpecCharts: api/websocket_charts.py, ChartConnectionManager.  The        *)
(* registry is a dict from WebSocket object to its set of (symbol, market)  *)
(* pairs; the endpoint tasks change it while a broadcast of the processor   *)
(* task waits in send_text.  WebSocket objects are numbered in the order    *)
(* connect() accepted them, which is the dict's insertion order.            *)

MaxConnections == 3     \* WebSocket objects accepted in one run

ThePair == <<SYMBOL, "spot">>

Registered(ws) ==
    \E i \in 1..Len(active_connections) : active_connections[i].websocket = ws

\* self.active_connections[websocket] = set()
connect(registry, ws) ==
    Append(registry, [websocket |-> ws, subscriptions |-> {}])

\* del self.active_connections[websocket]
disconnect(registry, ws) ==
    SelectSeq(registry, LAMBDA e : e.websocket # ws)

\* self.active_connections[websocket].add((symbol, market))
subscribe(registry, ws, pair) ==
    [i \in 1..Len(registry) |->
        IF registry[i].websocket = ws
        THEN [registry[i] EXCEPT !.subscriptions = @ \cup {pair}]
        ELSE registry[i]]

\* self.active_connections[websocket].discard((symbol, market))
unsubscribe(registry, ws, pair) ==
    [i \in 1..Len(registry) |->
        IF registry[i].websocket = ws
        THEN [registry[i] EXCEPT !.subscriptions = @ \ {pair}]
        ELSE registry[i]]

RECURSIVE DisconnectAll(_, _)
\* for ws in disconnected: self.disconnect(ws)
DisconnectAll(registry, wss) ==
    IF wss = <<>> THEN registry
    ELSE DisconnectAll(disconnect(registry, Head(wss)), Tail(wss))

\* The for loop of broadcast_trigger_mark from a next() of the items
\* iterator up to the following await.  The iterator raises RuntimeError
\* ("dictionary changed size during iteration") when the dict no longer has
\* the size it had when the loop began; the error leaves the function.
\* Entries not subscribed to the pair are passed without an await.
Iterate(registry, frame) ==
    IF Len(registry) # frame.di_used
    THEN [registry |-> registry,
          frame |-> [frame EXCEPT !.status = "failed", !.sending = 0]]
    ELSE LET rest == SelectSeq(registry,
                         LAMBDA e : /\ e.websocket > frame.di_pos
                                    /\ ThePair \in e.subscriptions)
         IN  IF rest = <<>>
             THEN [registry |-> DisconnectAll(registry, frame.disconnected),
                   frame |-> [frame EXCEPT !.status = "done", !.sending = 0]]
             ELSE [registry |-> registry,
                   frame |-> [frame EXCEPT !.status = "sending",
                                           !.sending = rest[1].websocket,
                                           !.di_pos = rest[1].websocket]]

BroadcastRunning == chart_broadcast # None /\ chart_broadcast[1].status = "sending"

\* history: ws is no longer subscribed to the pair for the whole broadcast
NotSteady(ws) ==
    IF BroadcastRunning
    THEN Some([chart_broadcast[1] EXCEPT !.steady = @ \ {ws}])
    ELSE chart_broadcast

chartRest == <<now, storeVars, callVars, builderVars, running, schedVars, procVars,
               fanoutVars, engineVars, stopVars, settingsVars, shutdownVars, watchVars,
               historyVars>>

\* websocket_chart_endpoint: await chart_manager.connect(websocket)
ChartConnect ==
    /\ accepted < MaxConnections
    /\ accepted' = accepted + 1
    /\ active_connections' = connect(active_connections, accepted + 1)
    /\ UNCHANGED <<chart_broadcast, chartRest>>

\* the endpoint's WebSocketDisconnect handler: chart_manager.disconnect
ChartDisconnect(ws) ==
    /\ Registered(ws)
    /\ active_connections' = disconnect(active_connections, ws)
    /\ chart_broadcast' = NotSteady(ws)
    /\ UNCHANGED <<accepted, chartRest>>

\* a client message {"action": "subscribe", ...}
ChartSubscribe(ws) ==
    /\ Registered(ws)
    /\ active_connections' = subscribe(active_connections, ws, ThePair)
    /\ UNCHANGED <<accepted, chart_broadcast, chartRest>>

\* a client message {"action": "unsubscribe", ...}
ChartUnsubscribe(ws) ==
    /\ Registered(ws)
    /\ active_connections' = unsubscribe(active_connections, ws, ThePair)
    /\ chart_broadcast' = NotSteady(ws)
    /\ UNCHANGED <<accepted, chartRest>>

\* broadcast_trigger_mark is called and runs up to its first send_text
BroadcastStart ==
    /\ ~BroadcastRunning
    /\ LET subscribed == {active_connections[i].websocket :
                             i \in {k \in 1..Len(active_connections) :
                                       ThePair \in active_connections[k].subscriptions}}
           r == Iterate(active_connections,
                        [di_used |-> Len(active_connections), di_pos |-> 0,
                         sending |-> 0, disconnected |-> <<>>, sent |-> {},
                         steady |-> subscribed, status |-> "sending"])
       IN  /\ active_connections' = r.registry
           /\ chart_broadcast' = Some(r.frame)
    /\ UNCHANGED <<accepted, chartRest>>

\* await websocket.send_text(message_json) returns or raises, and the loop
\* goes on to the next send or to the end of the function
SendReturns(raises) ==
    /\ BroadcastRunning
    /\ LET f == chart_broadcast[1]
           g == [f EXCEPT !.sent = @ \cup {f.sending},
                          !.disconnected = IF raises THEN Append(@, f.sending) ELSE @]
           r == Iterate(active_connections, g)
       IN  /\ active_connections' = r.registry
           /\ chart_broadcast' = Some(r.frame)
    /\ UNCHANGED <<accepted, chartRest>>

\* the module's chart_manager = ChartConnectionManager(), nothing else begun
InitCharts == InitCache

NextCharts ==
    \/ ChartConnect
    \/ \E ws \in 1..MaxConnections : ChartDisconnect(ws)
    \/ \E ws \in 1..MaxConnections : ChartSubscribe(ws)
    \/ \E ws \in 1..MaxConnections : ChartUnsubscribe(ws)
    \/ BroadcastStart
    \/ \E raises \in BOOLEAN : SendReturns(raises)

SpecCharts == InitCharts /\ [][NextCharts]_vars

\* C29: a broadcast that registry calls interleave with neither fails nor
\* ends without having sent to a connection that was subscribed to the pair
\* from its start to its end.
C29_BroadcastUnaffectedByRegistryCalls ==
    chart_broadcast # None =>
        /\ chart_broadcast[1].status # "failed"
        /\ chart_broadcast[1].status = "done"
               => chart_broadcast[1].steady \subseteq chart_broadcast[1].sent

-----------------------------------------------------------------------------
(* SpecExclude: the pipeline with a filter the filter API created: its      *)
(* stored config is the model_dump of PriceChangeConfig, whose exclusion    *)
(* list is the field exclude_coins.  The list names the watched symbol.     *)

\* PriceChangeConfig.exclude_coins of a stored config
exclude_coins(config) ==
    IF "exclude_coins" \in DOMAIN config THEN config.exclude_coins ELSE {}

\* create_filter: config_dict = filter_data.config.model_dump(), stored as JSON
ApiFilter ==
    FilterRow(1, "price_change",
              [market |-> "spot", interval_minutes |-> 2,
               min_price_change_percent |-> 50, direction |-> "up",
               min_volume_period |-> 0, min_volume_24h |-> 10,
               exclude_coins |-> {SYMBOL}])

InitExclude ==
    /\ InitStarted
    /\ candles = DrawnCandles(WarmHistory, StreamStart)
    /\ last_write = Written(candles)
    /\ filters = <<ApiFilter>>
    /\ filter_triggers = <<>>

NextExclude ==
    \/ Tick
    \/ \E price \in FramePrices : WatchTicker(price)
    \/ SchedulerFire
    \/ ProcGet
    \/ \E fails \in BOOLEAN : ProcSaveCandle(fails)
    \/ \E fails \in BOOLEAN : ProcFilters(fails)
    \/ \E fails \in BOOLEAN : ProcCooldown(fails)
    \/ \E fails \in BOOLEAN : ProcEvaluate(fails)
    \/ \E fails \in BOOLEAN : ProcSaveTrigger(fails)
    \/ ProcBroadcast
    \/ ProcNotify

SpecExclude == InitExclude /\ [][NextExclude]_vars

\* C30: for a filter whose stored config lists a symbol in exclude_coins, no
\* trigger of that symbol is persisted, marked, broadcast or notified.
C30_NoTriggerForExcludedSymbol ==
    \A i \in 1..Len(filters) : \A s \in exclude_coins(filters[i].config) :
        /\ \A k \in 1..Len(filter_triggers) :
               ~(filter_triggers[k].filter_id = filters[i].id
                 /\ filter_triggers[k].symbol = s)
        /\ \A k \in 1..Len(trigger_marks) :
               ~(trigger_marks[k].filter_id = filters[i].id
                 /\ trigger_marks[k].symbol = s)
        /\ \A k \in 1..Len(broadcasts) :
               ~(broadcasts[k].filter_name = filters[i].name
                 /\ broadcasts[k].symbol = s)
        /\ \A k \in 1..Len(alerts) :
               ~(alerts[k].filter_id = filters[i].id /\ alerts[k].symbol = s)

-----------------------------------------------------------------------------
(* More claims about the evaluators, checked under SpecEval *)

\* C31: a price_change filter with min_volume_period > 0 returns a trigger
\* only when the volumes of the window's candles sum to min_volume_period or
\* more.
C31_NoTriggerBelowPeriodVolume ==
    ( /\ evalOut # None
      /\ evalOut[1].type = "price_change"
      /\ EvalConfig.min_volume_period > 0
      /\ evalOut[1].result # None )
    => SumVolume(evalOut[1].window) >= EvalConfig.min_volume_period

-----------------------------------------------------------------------------
(* More claims about the watcher, checked under SpecFill *)

\* C33: when watch_ticker raises for the k-th time in a row and the watcher
\* goes to sleep, it sleeps for min(2^k, 60) seconds.
C33_BackoffIsTwoToTheK ==
    [][ (watch_pc = "watch" /\ watch_pc' = "sleep")
        => watch_wake' = now + Min(2 ^ consecutive_errors', 60) ]_vars

-----------------------------------------------------------------------------
(* SpecSettings: the scheduler and the processor with one filter and no     *)
(* frames, beside the settings API, which runs in the same process          *)

SettingsValues == {1, 30}   \* cooldown_minutes a client may send

\* update_settings: app_settings.cooldown_minutes = settings_update.cooldown_minutes
UpdateSettings(minutes) ==
    /\ running
    /\ minutes # app_cooldown_minutes
    /\ app_cooldown_minutes' = minutes
    /\ settings_changed_at' = Some(now)
    /\ UNCHANGED <<now, storeVars, callVars, builderVars, running, schedVars, procVars,
                   fanoutVars, engineVars, stopVars, chartVars, cooldown_used,
                   shutdownVars, watchVars, historyVars>>

InitSettings == InitPending

NextSettings ==
    \/ Tick
    \/ SchedulerFire
    \/ ProcGet
    \/ \E fails \in BOOLEAN : ProcFilters(fails)
    \/ \E fails \in BOOLEAN : ProcCooldown(fails)
    \/ \E fails \in BOOLEAN : ProcEvaluate(fails)
    \/ \E minutes \in SettingsValues : UpdateSettings(minutes)

SpecSettings == InitSettings /\ [][NextSettings]_vars

\* C34: a cooldown gate that runs in a later minute than the last change of
\* cooldown_minutes through the settings API uses the value that was set.
C34_CooldownGateUsesCurrentSetting ==
    ( /\ cooldown_used # None
      /\ settings_changed_at # None
      /\ round_to_minute(cooldown_used[1].at) > round_to_minute(settings_changed_at[1]) )
    => cooldown_used[1].minutes = app_cooldown_minutes

-----------------------------------------------------------------------------
(* SpecFilters: api/filters.py, the filter operations of the REST API on    *)
(* the filters table                                                        *)

MaxFilters == 3         \* rows of the filters table

FilterTypes == {"price_change", "volume_spike"}

\* Request bodies: the model_dump of a PriceChangeConfig and of a
\* VolumeSpikeConfig
ApiPriceChangeConfig ==
    [market |-> "spot", interval_minutes |-> 5, min_price_change_percent |-> 5,
     direction |-> "up", min_volume_period |-> 0, min_volume_24h |-> 0,
     exclude_coins |-> {}]

ApiVolumeSpikeConfig ==
    [market |-> "spot", short_period_minutes |-> 5, base_period_minutes |-> 60,
     spike_coefficient |-> 5, price_direction |-> "all",
     min_price_change_percent |-> 0, min_volume_24h |-> 0, exclude_coins |-> {}]

ApiConfigs == {ApiPriceChangeConfig, ApiVolumeSpikeConfig}

\* config: PriceChangeConfig | VolumeSpikeConfig: the model a request's
\* config validates as, named by the filter type it belongs to
ConfigModel(config) ==
    IF "interval_minutes" \in DOMAIN config THEN "price_change" ELSE "volume_spike"

\* FilterCreate.validate_config_type
validate_config_type(type, config) == ConfigModel(config) = type

\* Database.create_filter: INSERT INTO filters (name, type, enabled, config)
db_create_filter(table, name, type, config, enabled) ==
    Append(table, [id |-> Len(table) + 1, name |-> name, type |-> type,
                   enabled |-> enabled, config |-> config])

\* Database.update_filter: UPDATE filters SET ... WHERE id = ?, for the
\* arguments that are not None
db_update_filter(table, id, enabled, config) ==
    [i \in 1..Len(table) |->
        IF table[i].id # id THEN table[i]
        ELSE [table[i] EXCEPT
                 !.enabled = IF enabled = None THEN @ ELSE enabled[1],
                 !.config = IF config = None THEN @ ELSE config[1]]]

\* f"{original['name']} (copy)"
CopyName(name) == IF name = "f" THEN "f (copy)" ELSE "f (copy) (copy)"

filterRest == <<now, candles, candle_seq, tickers, filter_triggers, last_write,
                callVars, builderVars, pipeVars>>

\* POST /api/filters
ApiCreateFilter(type, config, enabled) ==
    /\ Len(filters) < MaxFilters
    /\ validate_config_type(type, config)
    /\ filters' = db_create_filter(filters, "f", type, config, enabled)
    /\ UNCHANGED filterRest

\* PUT /api/filters/{filter_id}
ApiUpdateFilter(id, enabled, config) ==
    /\ id \in 1..Len(filters)
    /\ filters' = db_update_filter(filters, id, enabled, config)
    /\ UNCHANGED filterRest

\* PATCH /api/filters/{filter_id}/toggle
ApiToggleFilter(id) ==
    /\ id \in 1..Len(filters)
    /\ filters' = db_update_filter(filters, id, Some(~filters[id].enabled), None)
    /\ UNCHANGED filterRest

\* POST /api/filters/{filter_id}/clone
ApiCloneFilter(id) ==
    /\ id \in 1..Len(filters)
    /\ Len(filters) < MaxFilters
    /\ filters' = db_create_filter(filters, CopyName(filters[id].name),
                                   filters[id].type, filters[id].config, FALSE)
    /\ UNCHANGED filterRest

InitFilters == InitCache

NextFilters ==
    \/ \E type \in FilterTypes, config \in ApiConfigs, enabled \in BOOLEAN :
           ApiCreateFilter(type, config, enabled)
    \/ \E id \in 1..MaxFilters, enabled \in {None, Some(TRUE), Some(FALSE)},
          config \in {None} \cup {Some(c) : c \in ApiConfigs} :
           ApiUpdateFilter(id, enabled, config)
    \/ \E id \in 1..MaxFilters : ApiToggleFilter(id)
    \/ \E id \in 1..MaxFilters : ApiCloneFilter(id)

SpecFilters == InitFilters /\ [][NextFilters]_vars

\* C35: the config of every stored filter is a config of the filter's type.
C35_ConfigConformsToType ==
    \A i \in 1..Len(filters) : ConfigModel(filters[i].config) = filters[i].type

-----------------------------------------------------------------------------
(* SpecWarmup: the start-up of SpecStartup with the exchange answering the  *)
(* history request with the open minute listed, over stores that hold rows  *)
(* of the last minutes, rows a previous run left, or rows of the other      *)
(* market                                                                   *)

RunGap == 5             \* minutes between the previous run's rows and this start

PreviousRunCandles(history) == DrawnCandles(history, StreamStart - RunGap * MINUTE)

OtherMarketCandles(history) ==
    { [r EXCEPT !.market = "futures"] : r \in DrawnCandles(history, StreamStart) }

InitWarmup ==
    /\ now = StreamStart
    /\ \E history \in Histories :
           candles \in { DrawnCandles(history, StreamStart),
                         PreviousRunCandles(history),
                         OtherMarketCandles(history) }
    /\ last_write = Written(candles)
    /\ StartupRest

NextWarmup ==
    \/ \E fails \in BOOLEAN : EngineWarmCache(fails)
    \/ EngineStartManager(FALSE, TRUE)

SpecWarmup == InitWarmup /\ [][NextWarmup]_vars

\* C36: once the manager has started, the store holds a candle of the
\* watched pair for each of the last HistoryMinutes closed minutes.
C36_StoreHoldsRecentHistoryAfterWarmup ==
    start_pc = "started"
    => \A k \in 1..HistoryMinutes :
           \E r \in candles :
               /\ r.symbol = SYMBOL
               /\ r.market = "spot"
               /\ r.timestamp = get_current_minute_timestamp(now) - k * MINUTE


-----------------------------------------------------------------------------
(* SpecMarks: the trigger marks of the cache over hours.  Marks are added   *)
(* for the two markets of the symbol while the clock goes on in steps of    *)
(* half an hour; the charts API reads them with get_trigger_marks.          *)

MaxMarkSteps == 5       \* half hours the clock goes on
MaxMarks == 3           \* marks held at once

MarkStep == 30 * MINUTE
MarkWindow == 7200      \* seconds a mark is kept at an add

MarkData(t) ==
    [timestamp |-> t, filter_id |-> 1, filter_name |-> "f1",
     filter_type |-> "price_change"]

\* _triggers_cache[key].append(trigger_data), then the list of that key is
\* rebuilt without the marks at or before the cutoff
add_trigger_mark(cache, symbol, market, trigger_data, t) ==
    LET mark == [symbol |-> symbol, market |-> market,
                 timestamp |-> trigger_data.timestamp,
                 filter_id |-> trigger_data.filter_id,
                 filter_name |-> trigger_data.filter_name,
                 filter_type |-> trigger_data.filter_type]
        cutoff == t - MarkWindow
    IN  SelectSeq(Append(cache, mark),
                  LAMBDA m : (m.symbol = symbol /\ m.market = market)
                                => m.timestamp > cutoff)

\* _triggers_cache.get(key, [])
get_trigger_marks(cache, symbol, market) ==
    SelectSeq(cache, LAMBDA m : m.symbol = symbol /\ m.market = market)

marksRest == <<storeVars, callVars, builderVars, running, schedVars, procVars,
               broadcasts, alerts, engineVars, stopVars, chartVars, settingsVars, shutdownVars,
               watchVars, historyVars>>

\* check_all_filters: cache.add_trigger_mark(symbol, market, {timestamp: int(time.time()), ...})
CacheAddTriggerMark(market) ==
    /\ Len(trigger_marks) < MaxMarks
    /\ trigger_marks' = add_trigger_mark(trigger_marks, SYMBOL, market,
                                         MarkData(now), now)
    /\ UNCHANGED <<now, marksRest>>

\* time passes with no trigger
MarksTick ==
    /\ now < StreamStart + MaxMarkSteps * MarkStep
    /\ now' = now + MarkStep
    /\ UNCHANGED <<trigger_marks, marksRest>>

InitMarks == InitCache

NextMarks ==
    \/ \E market \in Markets : CacheAddTriggerMark(market)
    \/ MarksTick

SpecMarks == InitMarks /\ [][NextMarks]_vars

\* C37: at any time get_trigger_marks(symbol, market) returns only marks whose
\* timestamp is within the last 2 hours, also when no mark has been added for
\* that pair for more than 2 hours.
C37_ReturnedMarksWithinTwoHours ==
    \A market \in Markets :
        LET marks == get_trigger_marks(trigger_marks, SYMBOL, market)
        IN  \A k \in 1..Len(marks) : marks[k].timestamp >= now - 2 * 60 * MINUTE

-----------------------------------------------------------------------------
(* SpecHoles: SpecFill started on a store that may lack minutes of the     *)
(* warm history, as a failed save or a minute without a frame leaves it    *)

\* the warm history with any of its minutes missing
HoleHistories == [1..MaxCandles -> {WarmHistory[1], NoCandle}]

InitHoles ==
    /\ InitStarted
    /\ \E history \in HoleHistories : candles = DrawnCandles(history, StreamStart)
    /\ last_write = Written(candles)
    /\ filters = <<>>
    /\ filter_triggers = <<>>

SpecHoles == InitHoles /\ [][NextFill]_vars

\* the minutes of the symbol the store has a candle for
StoredMinutes == {r.timestamp : r \in {q \in candles : q.symbol = SYMBOL}}

\* C38: after _ensure_data_continuity has completed for the symbol with the
\* exchange answering, the store has a candle for every minute between the
\* symbol's oldest stored candle and the last closed minute: holes before the
\* newest stored candle are repaired as well as the gap after it.
C38_NoHoleAfterContinuity ==
    ( /\ fill # None
      /\ fill[1].answered /\ ~fill[1].raised /\ fill[1].open_listed
      /\ get_current_minute_timestamp(fill[1].answered_at)
            = get_current_minute_timestamp(fill[1].checked_at)
      /\ get_current_minute_timestamp(now)
            = get_current_minute_timestamp(fill[1].checked_at)
      /\ StoredMinutes # {} )
    => LET oldest == CHOOSE m \in StoredMinutes : \A n \in StoredMinutes : m <= n
           last_closed == get_current_minute_timestamp(now) - MINUTE
       IN  \A m \in oldest..last_closed :
               m % MINUTE = 0 => m \in StoredMinutes

-----------------------------------------------------------------------------
(* SpecFrames: the builder fed with frames whose exchange timestamp may lag *)
(* behind the clock, so that a frame of an older minute can follow one of a *)
(* newer minute                                                             *)

MaxLag == 1             \* minutes the stamp of a frame may be behind the clock

\* ticker.get('timestamp', time.time() * 1000) of a frame taken at `clock`
FrameStamps(clock) == {clock - k * MINUTE : k \in 0..MaxLag}

NextFrames ==
    \/ BuilderClock
    \/ \E timestamp \in FrameStamps(now), price \in Prices :
           BuilderUpdate(timestamp, price)
    \/ \E minute \in StreamMinutes : BuilderFinalize(minute)

SpecFrames == InitBuilderSpec /\ [][NextFrames]_vars

\* C39: across any sequence of CandleBuilder.update calls current_minute_start
\* never decreases: the candle the builder held before its last rollover is of
\* an older minute than the one it builds now, so a tick of an older minute
\* neither replaces nor resets the candle of the newer minute.
C39_CurrentMinuteNeverDecreases ==
    (previous_candle # None /\ current_minute_start # None)
        => previous_candle[1].timestamp < current_minute_start[1]

-----------------------------------------------------------------------------
(* SpecShutdown: the tasks start() gathers, each followed from await to     *)
(* await, and WebSocketManager.stop().  What runs between two awaits of a   *)
(* task is one step: nothing else runs on the event loop in between.  A     *)
(* put on the unbounded queue does not suspend, so the scheduler's put, its *)
(* loop test and the start of its next sleep are one step.                  *)

MaxQueued == 2          \* tasks the scheduler leaves in the queue while running

shutRest == <<now, storeVars, callVars, builderVars, sched_minute_start,
              next_check_time, close_ticks, procVars, fanoutVars, engineVars,
              stopVars, chartVars, settingsVars, watchVars, historyVars>>

\* while self.running: the await the task goes into, or out of the loop
LoopTest(await) == IF running THEN await ELSE "done"

\* the scheduler that tests the flag when its sleep is over, before the put
LoopSchedulerNoLastPut ==
    /\ loop_pc.scheduler = "sleep"
    /\ running => Len(filter_check_queue) < MaxQueued
    /\ filter_check_queue' =
          IF running
          THEN Append(filter_check_queue,
                      [symbol |-> SYMBOL, closed_minute |-> sched_minute_start,
                       timestamp |-> now])
          ELSE filter_check_queue
    /\ loop_pc' = [loop_pc EXCEPT !.scheduler = LoopTest("sleep")]
    /\ UNCHANGED <<running, shutRest>>

\* _filter_check_scheduler: asyncio.sleep is over, every active symbol is
\* queued, then the loop test
LoopScheduler ==
    /\ loop_pc.scheduler = "sleep"
    /\ running => Len(filter_check_queue) < MaxQueued
    /\ filter_check_queue' = Append(filter_check_queue,
                                    [symbol |-> SYMBOL,
                                     closed_minute |-> sched_minute_start,
                                     timestamp |-> now])
    /\ loop_pc' = [loop_pc EXCEPT !.scheduler = LoopTest("sleep")]
    /\ UNCHANGED <<running, shutRest>>

\* _watch_symbol: watch_ticker returns a frame, which is folded in before the
\* loop test, or raises and the task sleeps the backoff delay; then the loop
\* test
LoopWatcher ==
    /\ \/ /\ loop_pc.watcher = "watch_ticker"
          /\ \E raised \in BOOLEAN :
                loop_pc' = [loop_pc EXCEPT !.watcher =
                               IF raised THEN "backoff" ELSE LoopTest("watch_ticker")]
       \/ /\ loop_pc.watcher = "backoff"
          /\ loop_pc' = [loop_pc EXCEPT !.watcher = LoopTest("watch_ticker")]
    /\ UNCHANGED <<running, filter_check_queue, shutRest>>

\* _process_filter_checks: queue.get() returns when the queue holds a task;
\* the task is worked off (errors are logged), then the loop test
LoopProcessor ==
    /\ \/ /\ loop_pc.processor = "get"
          /\ filter_check_queue # <<>>
          /\ filter_check_queue' = Tail(filter_check_queue)
          /\ loop_pc' = [loop_pc EXCEPT !.processor = "work"]
       \/ /\ loop_pc.processor = "work"
          /\ loop_pc' = [loop_pc EXCEPT !.processor = LoopTest("get")]
          /\ UNCHANGED filter_check_queue
    /\ UNCHANGED <<running, shutRest>>

\* _cleanup_loop: asyncio.sleep(3600) is over, the DELETE returns or raises
\* (logged), then the loop test
LoopCleanup ==
    /\ \/ /\ loop_pc.cleanup = "sleep"
          /\ loop_pc' = [loop_pc EXCEPT !.cleanup = "delete"]
       \/ /\ loop_pc.cleanup = "delete"
          /\ loop_pc' = [loop_pc EXCEPT !.cleanup = LoopTest("sleep")]
    /\ UNCHANGED <<running, filter_check_queue, shutRest>>

\* _gap_checker: asyncio.sleep(300) is over, the gathered continuity checks
\* return (return_exceptions=True), then the loop test
LoopGapChecker ==
    /\ \/ /\ loop_pc.gap_checker = "sleep"
          /\ loop_pc' = [loop_pc EXCEPT !.gap_checker = "continuity"]
       \/ /\ loop_pc.gap_checker = "continuity"
          /\ loop_pc' = [loop_pc EXCEPT !.gap_checker = LoopTest("sleep")]
    /\ UNCHANGED <<running, filter_check_queue, shutRest>>

AllLoopsLeft == \A t \in LoopTasks \ {"start"} : loop_pc[t] = "done"

\* await asyncio.gather(*tasks) returns when every task has returned
StartReturns ==
    /\ loop_pc.start = "gather"
    /\ AllLoopsLeft
    /\ loop_pc' = [loop_pc EXCEPT !.start = "returned"]
    /\ UNCHANGED <<running, filter_check_queue, shutRest>>

InitShutdown == InitGap

NextShutdown ==
    \/ SignalStop
    \/ LoopWatcher
    \/ LoopScheduler
    \/ LoopProcessor
    \/ LoopCleanup
    \/ LoopGapChecker
    \/ StartReturns

SpecShutdown == InitShutdown /\ [][NextShutdown]_vars

\* pending sleeps, exchange calls and store calls complete, and the event
\* loop runs every task that is ready
SpecShutdownFair ==
    /\ SpecShutdown
    /\ WF_vars(LoopWatcher)
    /\ WF_vars(LoopScheduler)
    /\ WF_vars(LoopProcessor)
    /\ WF_vars(LoopCleanup)
    /\ WF_vars(LoopGapChecker)
    /\ WF_vars(StartReturns)

\* C40: after stop() has set running to false and closed the exchange, every
\* task start() started (watcher, scheduler, queue processor, cleanup loop,
\* gap checker) eventually leaves its loop and start() eventually returns,
\* pending sleeps and exchange calls completing.
C40_StartReturnsAfterStop ==
    (~running) ~> (AllLoopsLeft /\ loop_pc.start = "returned")

\* stop() has been called, every task is out of its loop and start() has
\* returned
C40_Witness ==
    /\ ~running
    /\ AllLoopsLeft
    /\ loop_pc.start = "returned"
=============================================================================
